---- MODULE Spec2Model ----
(***************************************************************************)
(* Spam Guard: the TF-IDF Naive Bayes classifier of the background script. *)
(*                                                                         *)
(* A JavaScript string is a sequence of one-character strings, an optional *)
(* value (a property that may be undefined) is a sequence of length 0 or   *)
(* 1, and a JavaScript Map is the sequence of its <<key, value>> entries   *)
(* in insertion order.  Floating point numbers are fixed point integers,   *)
(* scaled by Scale.                                                        *)
(***************************************************************************)
EXTENDS Integers, Sequences, FiniteSets, TLC

\* ---------------------------------------------------------------------
\* Optional values and strings
\* ---------------------------------------------------------------------
None == <<>>
Some(x) == <<x>>
Present(o) == Len(o) = 1
Value(o) == o[1]

\* o || d
OrElse(o, d) == IF Present(o) THEN Value(o) ELSE d

\* a string is truthy iff it is defined and not empty
Truthy(o) == Present(o) /\ Len(Value(o)) > 0

Range(s) == {s[i] : i \in 1..Len(s)}

\* the tail of s from index i on
From(s, i) == SubSeq(s, i, Len(s))

LowerLetters ==
    <<"a","b","c","d","e","f","g","h","i","j","k","l","m",
      "n","o","p","q","r","s","t","u","v","w","x","y","z">>
UpperLetters ==
    <<"A","B","C","D","E","F","G","H","I","J","K","L","M",
      "N","O","P","Q","R","S","T","U","V","W","X","Y","Z">>
Digits == {"0","1","2","3","4","5","6","7","8","9"}

\* two ideographs of the range \u4e00-\u9fff, written by their code points
Ideographs == {"U+4E2D", "U+6587"}

\* \s
WhiteSpace == {" ", "\t", "\n", "\r"}

\* \w
WordChars == Range(LowerLetters) \cup Range(UpperLetters) \cup Digits \cup {"_"}
IsWordChar(c) == c \in WordChars

\* [\w.-]
AddrChars == WordChars \cup {".", "-"}
IsAddrChar(c) == c \in AddrChars

\* [\w\u4e00-\u9fff@.-]
KeptChars == AddrChars \cup Ideographs \cup {"@"}
IsKept(c) == c \in KeptChars

LowerOf ==
    [c \in Range(UpperLetters) |->
        LowerLetters[CHOOSE i \in 1..Len(UpperLetters) : UpperLetters[i] = c]]

toLowerCaseChar(c) == IF c \in DOMAIN LowerOf THEN LowerOf[c] ELSE c

toLowerCase(s) == [i \in 1..Len(s) |-> toLowerCaseChar(s[i])]

\* the first index >= i of s holding c, 0 when there is none
RECURSIVE IndexOfFrom(_, _, _)
IndexOfFrom(s, c, i) ==
    IF i > Len(s) THEN 0
    ELSE IF s[i] = c THEN i
    ELSE IndexOfFrom(s, c, i + 1)

StartsWithAt(s, i, p) ==
    /\ i + Len(p) - 1 <= Len(s)
    /\ SubSeq(s, i, i + Len(p) - 1) = p

\* text.replace(/<[^>]*>/g, ' ')
RECURSIVE replaceTags(_)
replaceTags(s) ==
    LET i == IndexOfFrom(s, "<", 1) IN
    IF i = 0 THEN s
    ELSE LET j == IndexOfFrom(s, ">", i + 1) IN
         IF j = 0 THEN s
         ELSE SubSeq(s, 1, i - 1) \o <<" ">> \o replaceTags(From(s, j + 1))

\* the last index of the longest run of non-space (and, with noSlash,
\* non-slash) characters of s that starts at i; i - 1 when the run is empty
RECURSIVE NonSpaceRunEnd(_, _, _)
NonSpaceRunEnd(s, i, noSlash) ==
    IF i > Len(s) \/ s[i] \in WhiteSpace \/ (noSlash /\ s[i] = "/") THEN i - 1
    ELSE NonSpaceRunEnd(s, i + 1, noSlash)

\* the index after "http://" or "https://" when s has one at i, else 0
UrlSchemeEnd(s, i) ==
    IF StartsWithAt(s, i, <<"h","t","t","p","s",":","/","/">>) THEN i + 8
    ELSE IF StartsWithAt(s, i, <<"h","t","t","p",":","/","/">>) THEN i + 7
    ELSE 0

\* text.replace(/https?:\/\/([^\s\/]+)[^\s]*/g, ' $1 ')
RECURSIVE replaceUrls(_)
replaceUrls(s) ==
    IF s = <<>> THEN s
    ELSE LET h == UrlSchemeEnd(s, 1)
             hostEnd == NonSpaceRunEnd(s, h, TRUE)
             matchEnd == NonSpaceRunEnd(s, h, FALSE)
         IN IF h # 0 /\ hostEnd >= h
            THEN <<" ">> \o SubSeq(s, h, hostEnd) \o <<" ">>
                     \o replaceUrls(From(s, matchEnd + 1))
            ELSE <<s[1]>> \o replaceUrls(Tail(s))

\* the last index of the longest run of [\w.-] characters of s that starts
\* at i; i - 1 when the run is empty
RECURSIVE AddrRunEnd(_, _)
AddrRunEnd(s, i) ==
    IF i > Len(s) \/ ~IsAddrChar(s[i]) THEN i - 1
    ELSE AddrRunEnd(s, i + 1)

\* text.replace(/[\w.-]+@([\w.-]+)/g, ' $1 ')
RECURSIVE replaceAddresses(_)
replaceAddresses(s) ==
    IF s = <<>> THEN s
    ELSE LET localEnd == AddrRunEnd(s, 1)
             domainEnd == AddrRunEnd(s, localEnd + 2)
         IN IF /\ localEnd >= 1
               /\ localEnd + 1 <= Len(s)
               /\ s[localEnd + 1] = "@"
               /\ domainEnd >= localEnd + 2
            THEN <<" ">> \o SubSeq(s, localEnd + 2, domainEnd) \o <<" ">>
                     \o replaceAddresses(From(s, domainEnd + 1))
            ELSE IF localEnd >= 1
            THEN SubSeq(s, 1, localEnd) \o replaceAddresses(From(s, localEnd + 1))
            ELSE <<s[1]>> \o replaceAddresses(Tail(s))

\* text.replace(/[^\w\u4e00-\u9fff@.-]/g, ' ')
replaceOthers(s) == [i \in 1..Len(s) |-> IF IsKept(s[i]) THEN s[i] ELSE " "]

\* text.split(/\s+/): the pieces between the runs of white space, the empty
\* piece before a leading run and after a trailing one included
RECURSIVE dropWhiteSpace(_)
dropWhiteSpace(s) ==
    IF s # <<>> /\ s[1] \in WhiteSpace THEN dropWhiteSpace(Tail(s)) ELSE s

RECURSIVE splitFrom(_, _)
splitFrom(s, piece) ==
    IF s = <<>> THEN <<piece>>
    ELSE IF s[1] \in WhiteSpace
    THEN <<piece>> \o splitFrom(dropWhiteSpace(s), <<>>)
    ELSE splitFrom(Tail(s), Append(piece, s[1]))

split(s) == splitFrom(s, <<>>)

\* a filter that keeps every piece
filterNothing(ws) == ws

\* words.filter(w => w.length > 1)
RECURSIVE filterLonger(_)
filterLonger(ws) ==
    IF ws = <<>> THEN <<>>
    ELSE IF Len(Head(ws)) > 1 THEN <<Head(ws)>> \o filterLonger(Tail(ws))
    ELSE filterLonger(Tail(ws))

\* tokenize(text): text is optional
tokenize(text) ==
    IF ~Truthy(text) THEN <<>>
    ELSE filterLonger(split(replaceOthers(replaceAddresses(replaceUrls(
             replaceTags(toLowerCase(Value(text))))))))

\* ---------------------------------------------------------------------
\* Feature extraction
\* ---------------------------------------------------------------------
\* an email record: each of the four properties is optional
EmailData(n, e, s, b) == [senderName |-> n, senderEmail |-> e, subject |-> s, body |-> b]

\* tokens.map(t => prefix + t)
withPrefix(prefix, tokens) == [i \in 1..Len(tokens) |-> prefix \o tokens[i]]

\* the first index i >= from of s with s[i] = "@" and s[i+1] in [\w.-], else 0
RECURSIVE AtSignIndex(_, _)
AtSignIndex(s, from) ==
    IF from >= Len(s) THEN 0
    ELSE IF s[from] = "@" /\ IsAddrChar(s[from + 1]) THEN from
    ELSE AtSignIndex(s, from + 1)

\* senderEmail.match(/@([\w.-]+)/): the optional group 1
emailMatch(senderEmail) ==
    LET i == AtSignIndex(senderEmail, 1) IN
    IF i = 0 THEN None
    ELSE Some(SubSeq(senderEmail, i + 1, AddrRunEnd(senderEmail, i + 1)))

\* domain.split('.').pop(): what follows the last dot
RECURSIVE lastLabel(_)
lastLabel(d) ==
    IF IndexOfFrom(d, ".", 1) = 0 THEN d
    ELSE lastLabel(From(d, IndexOfFrom(d, ".", 1) + 1))

nameFeatures(emailData) ==
    IF Truthy(emailData.senderName)
    THEN withPrefix(<<"n","a","m","e","_">>, tokenize(emailData.senderName))
    ELSE <<>>

emailFeatures(emailData) ==
    IF Truthy(emailData.senderEmail) /\ Present(emailMatch(Value(emailData.senderEmail)))
    THEN LET domain == Value(emailMatch(Value(emailData.senderEmail))) IN
         << <<"d","o","m","a","i","n","_">> \o toLowerCase(domain),
            <<"t","l","d","_">> \o lastLabel(domain) >>
    ELSE <<>>

\* subject features without the bare copy of the tokens
subjectFeaturesOnce(emailData) ==
    IF Truthy(emailData.subject)
    THEN withPrefix(<<"s","u","b","j","_">>, tokenize(emailData.subject))
    ELSE <<>>

subjectFeatures(emailData) ==
    IF Truthy(emailData.subject)
    THEN withPrefix(<<"s","u","b","j","_">>, tokenize(emailData.subject))
             \o tokenize(emailData.subject)
    ELSE <<>>

bodyFeatures(emailData) ==
    IF Truthy(emailData.body) THEN tokenize(emailData.body) ELSE <<>>

extractFeatures(emailData) ==
    nameFeatures(emailData) \o emailFeatures(emailData)
        \o subjectFeatures(emailData) \o bodyFeatures(emailData)

\* ---------------------------------------------------------------------
\* Map: the sequence of its <<key, value>> entries in insertion order
\* ---------------------------------------------------------------------
MapKeys(m) == {m[i][1] : i \in 1..Len(m)}
MapHas(m, k) == \E i \in 1..Len(m) : m[i][1] = k
MapGet(m, k) == m[CHOOSE i \in 1..Len(m) : m[i][1] = k][2]

\* m.get(k) || 0
MapGetOr0(m, k) == IF MapHas(m, k) THEN MapGet(m, k) ELSE 0

\* m.set(k, v): an existing key keeps its place
MapSet(m, k, v) ==
    IF MapHas(m, k)
    THEN [i \in 1..Len(m) |-> IF m[i][1] = k THEN <<k, v>> ELSE m[i]]
    ELSE Append(m, <<k, v>>)

\* m.set(k, (m.get(k) || 0) + 1)
MapIncrement(m, k) == MapSet(m, k, MapGetOr0(m, k) + 1)

\* new Map(entries)
RECURSIVE MapFromInto(_, _)
MapFromInto(entries, m) ==
    IF entries = <<>> THEN m
    ELSE MapFromInto(Tail(entries), MapSet(m, Head(entries)[1], Head(entries)[2]))

MapFrom(entries) == MapFromInto(entries, <<>>)

\* for (const word of words) m.set(word, (m.get(word) || 0) + 1)
RECURSIVE countInto(_, _)
countInto(words, m) ==
    IF words = <<>> THEN m
    ELSE countInto(Tail(words), MapIncrement(m, Head(words)))

\* new Set(features), in iteration order
RECURSIVE uniqueInto(_, _)
uniqueInto(words, seen) ==
    IF words = <<>> THEN seen
    ELSE uniqueInto(Tail(words),
                    IF Head(words) \in Range(seen) THEN seen ELSE Append(seen, Head(words)))

uniqueWords(features) == uniqueInto(features, <<>>)

\* an argument of predict: a string, an email record, or undefined
StringArg(text) == [kind |-> "string", text |-> Some(text), emailData |-> None]
ObjectArg(emailData) == [kind |-> "object", text |-> None, emailData |-> Some(emailData)]
UndefinedArg == [kind |-> "undefined", text |-> None, emailData |-> None]

\* ---------------------------------------------------------------------
\* The inputs of the model
\* ---------------------------------------------------------------------
\* the longest training corpus
MaxDocs == 2

\* "Fr pr", "pr pr a", "<b>mt</b>", "pr http://fr.io/x", "mt pr",
\* "fr", "pr", "Al", "al@B.io"
TextFrPr == <<"F","r"," ","p","r">>
TextPrPrA == <<"p","r"," ","p","r"," ","a">>
TextTagMt == <<"<","b",">","m","t","<","/","b",">">>
TextPrUrl == <<"p","r"," ","h","t","t","p",":","/","/","f","r",".","i","o","/","x">>
TextMtPr == <<"m","t"," ","p","r">>
TextFr == <<"f","r">>
TextPr == <<"p","r">>
TextAl == <<"A","l">>
TextAddress == <<"a","l","@","B",".","i","o">>

\* { label, emailData } and the legacy { label, text }
MailItem(label, emailData) == [label |-> label, emailData |-> Some(emailData), text |-> None]
TextItem(label, text) == [label |-> label, emailData |-> None, text |-> Some(text)]

SpamMail ==
    MailItem("spam", EmailData(Some(TextAl), Some(TextAddress), Some(TextFrPr), Some(TextPrPrA)))
HamText == TextItem("ham", TextMtPr)
EmptyText == TextItem("ham", <<>>)

Items == {SpamMail, HamText, EmptyText}

Corpora == UNION {[1..n -> Items] : n \in 0..MaxDocs}

Args ==
    { StringArg(TextPrUrl),
      ObjectArg(EmailData(None, None, Some(TextFr), Some(TextPr))),
      ObjectArg(EmailData(Some(TextAl), None, None, Some(TextTagMt))),
      ObjectArg(EmailData(None, None, None, None)),
      UndefinedArg }

\* ---------------------------------------------------------------------
\* Numbers: fixed point, Scale units to 1
\* ---------------------------------------------------------------------
Scale == 1000

\* Scale * ln(n) for n in 1..128, rounded
LnTable ==
    <<
      0, 693, 1099, 1386, 1609, 1792, 1946, 2079,
      2197, 2303, 2398, 2485, 2565, 2639, 2708, 2773,
      2833, 2890, 2944, 2996, 3045, 3091, 3135, 3178,
      3219, 3258, 3296, 3332, 3367, 3401, 3434, 3466,
      3497, 3526, 3555, 3584, 3611, 3638, 3664, 3689,
      3714, 3738, 3761, 3784, 3807, 3829, 3850, 3871,
      3892, 3912, 3932, 3951, 3970, 3989, 4007, 4025,
      4043, 4060, 4078, 4094, 4111, 4127, 4143, 4159,
      4174, 4190, 4205, 4220, 4234, 4248, 4263, 4277,
      4290, 4304, 4317, 4331, 4344, 4357, 4369, 4382,
      4394, 4407, 4419, 4431, 4443, 4454, 4466, 4477,
      4489, 4500, 4511, 4522, 4533, 4543, 4554, 4564,
      4575, 4585, 4595, 4605, 4615, 4625, 4635, 4644,
      4654, 4663, 4673, 4682, 4691, 4700, 4710, 4718,
      4727, 4736, 4745, 4754, 4762, 4771, 4779, 4787,
      4796, 4804, 4812, 4820, 4828, 4836, 4844, 4852
    >>

\* Scale * Math.log(n) for an integer n >= 1
RECURSIVE LogInt(_)
LogInt(n) ==
    IF n <= Len(LnTable) THEN LnTable[n]
    ELSE LogInt(n \div 2) + LnTable[2]

\* Scale * Math.log(num / den) for integers num, den >= 1
Log(num, den) == LogInt(num) - LogInt(den)

Max(a, b) == IF a > b THEN a ELSE b

RECURSIVE Halve(_, _)
Halve(v, k) == IF k = 0 \/ v = 0 THEN v ELSE Halve(v \div 2, k - 1)

\* Scale * Math.exp(-r / Scale) for 0 <= r < Scale * ln 2: the series
\* 1 - r + r^2/2! - r^3/3! + r^4/4! - r^5/5!
ExpSeries(r) ==
    LET t2 == (r * r) \div (2 * Scale)
        t3 == (t2 * r) \div (3 * Scale)
        t4 == (t3 * r) \div (4 * Scale)
        t5 == (t4 * r) \div (5 * Scale)
    IN Scale - r + t2 - t3 + t4 - t5

\* Scale * Math.exp(x / Scale) for x <= 0: exp(-(k ln 2 + r)) = exp(-r) / 2^k
Exp(x) == Halve(ExpSeries((0 - x) % LnTable[2]), (0 - x) \div LnTable[2])

\* ---------------------------------------------------------------------
\* The classifier
\* ---------------------------------------------------------------------
\* { spam: 0, ham: 0 }
ZeroCounts == [spam |-> 0, ham |-> 0]

DefaultAlpha == 1
DefaultMinDf == 2

\* new TfIdfNaiveBayes()
New ==
    [ vocabulary        |-> <<>>,
      documentFrequency |-> <<>>,
      totalDocuments    |-> 0,
      classDocCount     |-> ZeroCounts,
      classWordCounts   |-> [spam |-> <<>>, ham |-> <<>>],
      classTotalWords   |-> ZeroCounts,
      alpha             |-> DefaultAlpha,
      minDf             |-> DefaultMinDf,
      isTrained         |-> FALSE ]

\* termFrequency(words): word -> count / (words.length || 1)
\* a document length that is the number of words, whatever it is
docLengthOrZero(words) == Len(words)

\* words.length || 1
docLength(words) == IF Len(words) = 0 THEN 1 ELSE Len(words)

termFrequency(words) ==
    LET tf == countInto(words, <<>>) IN
    [i \in 1..Len(tf) |-> <<tf[i][1], (tf[i][2] * Scale) \div docLength(words)>>]

\* idf(word)
idf(c, word) ==
    LET df == MapGetOr0(c.documentFrequency, word) IN
    IF df = 0 THEN 0
    ELSE Log(c.totalDocuments + 1, df + 1) + Scale

\* tfidfFromFeatures(features): word -> tf * idf
tfidfFromFeatures(c, features) ==
    LET tf == termFrequency(features) IN
    [i \in 1..Len(tf) |-> <<tf[i][1], (tf[i][2] * idf(c, tf[i][1])) \div Scale>>]

\* one item of the training data: the features it is counted with, none
\* when the item is skipped
itemFeatures(item) ==
    IF Present(item.emailData) THEN Some(extractFeatures(Value(item.emailData)))
    ELSE IF Truthy(item.text) THEN Some(tokenize(item.text))
    ELSE None

\* the features of the items of the model, computed once
ItemFeatures == [item \in Items |-> itemFeatures(item)]

featuresOfItem(item) ==
    IF item \in Items THEN ItemFeatures[item] ELSE itemFeatures(item)

\* trainItem, counting every occurrence of a word in the document frequency
trainItemPerOccurrence(c, item) ==
    LET f == featuresOfItem(item) IN
    IF ~Present(f) THEN c
    ELSE LET features == Value(f)
             label == item.label
         IN [c EXCEPT
               !.documentFrequency = countInto(features, @),
               !.classDocCount[label] = @ + 1,
               !.classWordCounts[label] = countInto(features, @),
               !.classTotalWords[label] = @ + Len(features)]

\* the body of train's loop for one item
trainItem(c, item) ==
    LET f == featuresOfItem(item) IN
    IF ~Present(f) THEN c
    ELSE LET features == Value(f)
             label == item.label
         IN [c EXCEPT
               !.documentFrequency = countInto(uniqueWords(features), @),
               !.classDocCount[label] = @ + 1,
               !.classWordCounts[label] = countInto(features, @),
               !.classTotalWords[label] = @ + Len(features)]

\* a loop that ends after its first item
trainItemsFirst(c, trainingData) ==
    IF trainingData = <<>> THEN c ELSE trainItem(c, Head(trainingData))

RECURSIVE trainItems(_, _)
trainItems(c, trainingData) ==
    IF trainingData = <<>> THEN c
    ELSE trainItems(trainItem(c, Head(trainingData)), Tail(trainingData))

\* buildVocabulary, keeping df > minDf only
RECURSIVE buildVocabularyAbove(_, _, _)
buildVocabularyAbove(documentFrequency, minDf, vocabulary) ==
    IF documentFrequency = <<>> THEN vocabulary
    ELSE buildVocabularyAbove(
             Tail(documentFrequency), minDf,
             IF Head(documentFrequency)[2] > minDf
             THEN Append(vocabulary, <<Head(documentFrequency)[1], Len(vocabulary)>>)
             ELSE vocabulary)

\* build vocabulary (filter by minDf)
RECURSIVE buildVocabulary(_, _, _)
buildVocabulary(documentFrequency, minDf, vocabulary) ==
    IF documentFrequency = <<>> THEN vocabulary
    ELSE buildVocabulary(
             Tail(documentFrequency), minDf,
             IF Head(documentFrequency)[2] >= minDf
             THEN Append(vocabulary, <<Head(documentFrequency)[1], Len(vocabulary)>>)
             ELSE vocabulary)

\* trainReset, leaving the document frequencies in place
trainResetKeepsFrequencies(c, trainingData) ==
    [c EXCEPT
       !.vocabulary = <<>>,
       !.classWordCounts = [spam |-> <<>>, ham |-> <<>>],
       !.classTotalWords = ZeroCounts,
       !.classDocCount = ZeroCounts,
       !.totalDocuments = Len(trainingData)]

\* trainReset, leaving the per-class word counts in place
trainResetKeepsWordCounts(c, trainingData) ==
    [c EXCEPT
       !.vocabulary = <<>>,
       !.documentFrequency = <<>>,
       !.classTotalWords = ZeroCounts,
       !.classDocCount = ZeroCounts,
       !.totalDocuments = Len(trainingData)]

\* a reset that sets the counts of the object a property names to zero
sameObject(old, new) == old

\* this.classTotalWords = { spam: 0, ham: 0 }, this.classDocCount = { spam:
\* 0, ham: 0 }: the property names a new object, not the old one
newObject(old, new) == new

\* the reset at the head of train
trainReset(c, trainingData) ==
    [c EXCEPT
       !.vocabulary = <<>>,
       !.documentFrequency = <<>>,
       !.classWordCounts = [spam |-> <<>>, ham |-> <<>>],
       !.classTotalWords = ZeroCounts,
       !.classDocCount = ZeroCounts,
       !.totalDocuments = Len(trainingData)]

\* train, without the early return on an empty corpus
trainAlwaysFlags(c, trainingData) ==
    LET counted == trainItems(trainReset(c, trainingData), trainingData) IN
    [counted EXCEPT
       !.vocabulary = buildVocabulary(counted.documentFrequency, counted.minDf, <<>>),
       !.isTrained = TRUE]

\* a train that gives way to the other handlers after its reset and never
\* rebuilds
trainUpToReset(c, trainingData) == trainReset(c, trainingData)

\* train(trainingData)
train(c, trainingData) ==
    IF Len(trainingData) = 0 THEN trainReset(c, trainingData)
    ELSE LET counted == trainItems(trainReset(c, trainingData), trainingData) IN
         [counted EXCEPT
            !.vocabulary = buildVocabulary(counted.documentFrequency, counted.minDf, <<>>),
            !.isTrained = TRUE]

\* how a call ends: it returns a value or throws a TypeError
Return(v) == [threw |-> FALSE, value |-> Some(v)]
TypeError == [threw |-> TRUE, value |-> None]

\* the features predict and getTopFeatures score; reading a property of
\* undefined throws
argFeatures(x) ==
    IF x.kind = "string" THEN Return(tokenize(x.text))
    ELSE IF x.kind = "object" THEN Return(extractFeatures(Value(x.emailData)))
    ELSE TypeError

\* ---------------------------------------------------------------------
\* The background script: headers, senders, bodies and settings
\* ---------------------------------------------------------------------
UpperOf ==
    [c \in Range(LowerLetters) |->
        UpperLetters[CHOOSE i \in 1..Len(LowerLetters) : LowerLetters[i] = c]]

toUpperCase(s) == [i \in 1..Len(s) |-> IF s[i] \in DOMAIN UpperOf THEN UpperOf[s[i]] ELSE s[i]]

\* s.includes(p)
includes(s, p) == \E i \in 1..(Len(s) - Len(p) + 1) : SubSeq(s, i, i + Len(p) - 1) = p

\* s.trim()
RECURSIVE trim(_)
trim(s) ==
    IF Len(s) = 0 THEN s
    ELSE IF s[1] \in WhiteSpace THEN trim(Tail(s))
    ELSE IF s[Len(s)] \in WhiteSpace THEN trim(SubSeq(s, 1, Len(s) - 1))
    ELSE s

SPAM_HEADERS ==
    << [header |-> "x-spam-status", value |-> <<"Y","e","s">>],
       [header |-> "x-spam-flag", value |-> <<"Y","E","S">>],
       [header |-> "x-hines-imss-spam", value |-> <<"S","P","A","M">>] >>

\* the headers of a message: a function from header names to the list of
\* the values of the header; {} is the function of no header
NoHeaders == [h \in {} |-> <<>>]

\* hasSpamHeader(headers)
hasSpamHeader(headers) ==
    \E k \in 1..Len(SPAM_HEADERS) :
        /\ SPAM_HEADERS[k].header \in DOMAIN headers
        /\ \E v \in 1..Len(headers[SPAM_HEADERS[k].header]) :
               includes(toUpperCase(headers[SPAM_HEADERS[k].header][v]),
                        toUpperCase(SPAM_HEADERS[k].value))

\* getMessageHeaders(message.id): the headers of the message, {} when
\* browser.messages.getFull fails
getMessageHeaders(message, ok) == IF ok THEN message.headers ELSE NoHeaders

\* the index of the "<" at which author.match(/^(.+?)\s*<([^>]+)>$/) ends
\* the name, 0 when there is no match: the first "<" that is not the first
\* character and is followed by characters other than ">" up to a last ">"
angleIndex(author) ==
    LET n == Len(author)
        found == {j \in 2..(n - 2) :
                     /\ author[j] = "<"
                     /\ author[n] = ">"
                     /\ \A k \in (j + 1)..(n - 1) : author[k] # ">"}
    IN IF found = {} THEN 0 ELSE CHOOSE j \in found : \A k \in found : j <= k

\* parseSender(author): author is optional
parseSender(author) ==
    IF ~Truthy(author) THEN [name |-> <<>>, email |-> <<>>]
    ELSE LET a == Value(author)
             j == angleIndex(a)
         IN IF j > 0
            THEN [name |-> trim(SubSeq(a, 1, j - 1)),
                  email |-> trim(SubSeq(a, j + 1, Len(a) - 1))]
            ELSE IF "@" \in Range(a) THEN [name |-> <<>>, email |-> trim(a)]
            ELSE [name |-> trim(a), email |-> <<>>]

\* bodyText.substring(0, 5000)
MaxBodyLength == 5000

\* getMessageBodyText(message.id), for a message of one part: the text of
\* a text/plain part, the text of a text/html part without its tags, each
\* followed by a space; "" for another part and when getFull fails
getMessageBodyText(message, ok) ==
    LET bodyText ==
            IF ~ok \/ ~Truthy(message.body) THEN <<>>
            ELSE IF message.contentType = "text/plain" THEN Value(message.body) \o <<" ">>
            ELSE IF message.contentType = "text/html"
            THEN replaceTags(Value(message.body)) \o <<" ">>
            ELSE <<>>
    IN SubSeq(bodyText, 1, IF Len(bodyText) < MaxBodyLength THEN Len(bodyText) ELSE MaxBodyLength)

\* the settings checkAndMoveMessage reads, numbers in units of 1/Scale;
\* autoMoveThreshold is not among the defaults
DEFAULT_SETTINGS ==
    [ enabled           |-> TRUE,
      autoScan          |-> TRUE,
      notifyOnMove      |-> TRUE,
      useMLClassifier   |-> TRUE,
      mlThreshold       |-> 700,
      autoMoveThreshold |-> None ]

\* settings.autoMoveThreshold || 0.99
DefaultAutoMoveThreshold == 990

\* the detection threshold in the place of the auto-move threshold
autoMoveThresholdAsDetection(s) == s.mlThreshold

autoMoveThresholdOf(s) ==
    IF Present(s.autoMoveThreshold) /\ Value(s.autoMoveThreshold) # 0
    THEN Value(s.autoMoveThreshold)
    ELSE DefaultAutoMoveThreshold

\* the record checkAndMoveMessage has the message classified as
emailDataOf(message, bodyOk) ==
    EmailData(Some(parseSender(message.author).name),
              Some(parseSender(message.author).email),
              Some(OrElse(message.subject, <<>>)),
              Some(getMessageBodyText(message, bodyOk)))

\* ---------------------------------------------------------------------
\* The messages of the model
\* ---------------------------------------------------------------------
\* "YES", "No", "Al <al@B.io>", "fr fr", "fr zz", "fr zz zz zz zz zz"
TextYES == <<"Y","E","S">>
TextNo == <<"N","o">>
TextAuthor == <<"A","l"," ","<","a","l","@","B",".","i","o",">">>
TextFrFr == <<"f","r"," ","f","r">>
TextFrZz == <<"f","r"," ","z","z">>
TextFrZz5 == TextFrZz \o <<" ","z","z"," ","z","z"," ","z","z"," ","z","z">>

\* the word w, n times
RECURSIVE Repeat(_, _)
Repeat(w, n) == IF n = 0 THEN <<>> ELSE w \o <<" ">> \o Repeat(w, n - 1)

Message(id, headers, author, subject, contentType, body) ==
    [id |-> id, headers |-> headers, author |-> author, subject |-> subject,
     contentType |-> contentType, body |-> body]

\* a message with a spam header; three without, which the classifier
\* scores for spam above 0.99, between 0.9 and 0.95, and below 0.7 (and
\* for ham when their body cannot be read); and a message with a spam
\* header that is in the spam folder already
FlaggedMail ==
    Message(1, [h \in {"x-spam-flag"} |-> <<TextYES>>],
            Some(TextAuthor), Some(TextMtPr), "text/plain", Some(TextFr))
SureSpam ==
    Message(2, [h \in {"x-spam-status"} |-> <<TextNo>>],
            None, None, "text/plain", Some(TextFrFr))
LikelySpam ==
    Message(3, NoHeaders, None, Some(<<>>), "text/html", Some(TextFrZz))
WeakSpam ==
    Message(4, NoHeaders, None, None, "text/plain", Some(TextFrZz5))
JunkedMail ==
    Message(5, [h \in {"x-spam-status"} |-> <<TextNo, <<"y","e","s">>>>],
            None, None, "text/plain", None)

Messages == {FlaggedMail, SureSpam, LikelySpam, WeakSpam, JunkedMail}

\* ---------------------------------------------------------------------
\* The classifier: predict, getTopFeatures, serialize and deserialize
\* ---------------------------------------------------------------------
\* the records the messages of the model are classified as, and their
\* features, computed once
MailArgs == {ObjectArg(emailDataOf(m, ok)) : m \in Messages, ok \in BOOLEAN}
MailFeatures == [x \in MailArgs |-> Return(extractFeatures(Value(x.emailData)))]

\* the features of the arguments of the model, computed once
ArgFeatures == [x \in Args |-> argFeatures(x)]

featuresOfArg(x) ==
    IF x \in Args THEN ArgFeatures[x]
    ELSE IF x \in MailArgs THEN MailFeatures[x]
    ELSE argFeatures(x)

\* this.vocabulary.size || 1
vocabSize(c) == IF Len(c.vocabulary) = 0 THEN 1 ELSE Len(c.vocabulary)

\* totalWords + this.alpha * vocabSize
smoothingDenominator(c, label) == c.classTotalWords[label] + c.alpha * vocabSize(c)

\* this.totalDocuments + 2 * this.alpha
priorDenominator(c) == c.totalDocuments + 2 * c.alpha

\* the sum, over the entries of tfidfVec from index i on whose word is in the
\* vocabulary, of Math.log(wordProb) * tfidfValue
RECURSIVE logLikelihood(_, _, _, _)
logLikelihood(c, label, tfidfVec, i) ==
    IF i > Len(tfidfVec) THEN 0
    ELSE LET word == tfidfVec[i][1]
             tfidfValue == tfidfVec[i][2]
             wordCount == MapGetOr0(c.classWordCounts[label], word)
             logWordProb == Log(wordCount + c.alpha, smoothingDenominator(c, label))
         IN (IF MapHas(c.vocabulary, word)
             THEN (logWordProb * tfidfValue) \div Scale
             ELSE 0)
            + logLikelihood(c, label, tfidfVec, i + 1)

\* logProbs[label] with the prior alone, the words of the instance unread
logProbOfPrior(c, label, features) ==
    Log(c.classDocCount[label] + c.alpha, c.totalDocuments + 2 * c.alpha)

\* logProbs[label] of predict for the given features
logProb(c, label, features) ==
    Log(c.classDocCount[label] + c.alpha, priorDenominator(c))
        + logLikelihood(c, label, tfidfFromFeatures(c, features), 1)

logProbs(c, features) ==
    [spam |-> logProb(c, "spam", features), ham |-> logProb(c, "ham", features)]

\* expSpam + expHam
sumExp(lp) ==
    LET maxLogProb == Max(lp.spam, lp.ham) IN
    Exp(lp.spam - maxLogProb) + Exp(lp.ham - maxLogProb)

\* a normalisation that divides by the larger exponential, not by the sum
normalizeByMax(lp) ==
    LET maxLogProb == Max(lp.spam, lp.ham)
        expSpam == Exp(lp.spam - maxLogProb)
        expHam == Exp(lp.ham - maxLogProb)
        maxExp == Max(expSpam, expHam)
    IN [spam |-> (expSpam * Scale) \div maxExp, ham |-> (expHam * Scale) \div maxExp]

\* the normalisation at the tail of predict
normalize(lp) ==
    LET maxLogProb == Max(lp.spam, lp.ham)
        expSpam == Exp(lp.spam - maxLogProb)
        expHam == Exp(lp.ham - maxLogProb)
    IN [spam |-> (expSpam * Scale) \div sumExp(lp), ham |-> (expHam * Scale) \div sumExp(lp)]

\* { label: 'unknown', probability: 0, scores: {} }
Unknown == [label |-> "unknown", probability |-> 0, scores |-> [l \in {} |-> 0]]

\* the scores predict computes once it is past the isTrained test
predictTrained(c, x) ==
    IF featuresOfArg(x).threw THEN TypeError
    ELSE LET probabilities == normalize(logProbs(c, Value(featuresOfArg(x).value)))
             predictedLabel == IF probabilities.spam > probabilities.ham
                               THEN "spam" ELSE "ham"
         IN Return([label |-> predictedLabel,
                    probability |-> probabilities[predictedLabel],
                    scores |-> probabilities])

\* predict, without the isTrained test
predictUnguarded(c, x) == predictTrained(c, x)

\* predict(emailData)
predict(c, x) ==
    IF ~c.isTrained THEN Return(Unknown) ELSE predictTrained(c, x)

\* the entries before e in the order of sort((a, b) => b[1] - a[1]): those
\* already placed whose value is not smaller (the sort is stable)
RECURSIVE placeBefore(_, _)
placeBefore(sorted, e) ==
    IF Len(sorted) = 0 THEN 0
    ELSE IF sorted[1][2] >= e[2] THEN 1 + placeBefore(Tail(sorted), e)
    ELSE 0

\* the entries in the opposite order, (a, b) => a[1] - b[1]
RECURSIVE sortAscending(_)
sortAscending(entries) ==
    IF Len(entries) = 0 THEN <<>>
    ELSE LET e == entries[Len(entries)]
             sorted == sortAscending(SubSeq(entries, 1, Len(entries) - 1))
             k == Cardinality({i \in 1..Len(sorted) : sorted[i][2] <= e[2]})
         IN SubSeq(sorted, 1, k) \o <<e>> \o SubSeq(sorted, k + 1, Len(sorted))

\* entries.sort((a, b) => b[1] - a[1]): by value, the largest first
RECURSIVE sortDescending(_)
sortDescending(entries) ==
    IF Len(entries) = 0 THEN <<>>
    ELSE LET e == entries[Len(entries)]
             sorted == sortDescending(SubSeq(entries, 1, Len(entries) - 1))
             k == placeBefore(sorted, e)
         IN SubSeq(sorted, 1, k) \o <<e>> \o SubSeq(sorted, k + 1, Len(sorted))

\* entries.filter(([word]) => this.vocabulary.has(word))
RECURSIVE filterVocabulary(_, _)
filterVocabulary(c, entries) ==
    IF Len(entries) = 0 THEN <<>>
    ELSE (IF MapHas(c.vocabulary, entries[1][1]) THEN <<entries[1]>> ELSE <<>>)
         \o filterVocabulary(c, Tail(entries))

\* array.slice(0, n): n counts from the end when it is negative
slice(array, n) ==
    IF n >= 0 THEN SubSeq(array, 1, IF n < Len(array) THEN n ELSE Len(array))
    ELSE SubSeq(array, 1, Len(array) + n)

\* score.toFixed(4): the decimal numeral of score with four digits after the
\* point, held as the number of ten-thousandths it denotes; a half rounds
\* away from zero
toFixed4(score) ==
    IF score >= 0 THEN (score * 10000 + Scale \div 2) \div Scale
    ELSE 0 - ((((0 - score) * 10000) + Scale \div 2) \div Scale)

\* the n of getTopFeatures(emailData, n = 10)
DefaultN == 10

\* getTopFeatures(emailData, n = 10): n is optional
getTopFeatures(c, x, n) ==
    IF featuresOfArg(x).threw THEN TypeError
    ELSE LET tfidfVec == tfidfFromFeatures(c, Value(featuresOfArg(x).value))
             top == slice(sortDescending(filterVocabulary(c, tfidfVec)),
                          OrElse(n, DefaultN))
         IN Return([i \in 1..Len(top) |->
                       [word |-> top[i][1], score |-> toFixed4(top[i][2])]])

\* serialize(): every property of the snapshot is set
serialize(c) ==
    [ vocabulary        |-> Some(c.vocabulary),
      documentFrequency |-> Some(c.documentFrequency),
      totalDocuments    |-> Some(c.totalDocuments),
      classDocCount     |-> Some(c.classDocCount),
      classWordCounts   |-> Some([spam |-> Some(c.classWordCounts.spam),
                                  ham |-> Some(c.classWordCounts.ham)]),
      classTotalWords   |-> Some(c.classTotalWords),
      isTrained         |-> Some(c.isTrained) ]

\* data.classWordCounts?.[label] || []
classWordCountsOf(data, label) ==
    IF Present(data.classWordCounts)
    THEN OrElse(Value(data.classWordCounts)[label], <<>>)
    ELSE <<>>

\* a property that holds the number 7 where a collection is expected: it is
\* neither missing nor a collection, it is truthy and it is not iterable
Number7 == <<"number", 7>>
IsNumber(o) == Len(o) = 2

\* the statement of deserialize that raises a TypeError, 0 when none does:
\* new Map(x) raises when x is not iterable, and data[p] || [] is data[p]
\* when that is a number other than 0
deserializeRaisesAt(d) ==
    IF IsNumber(d.vocabulary) THEN 1
    ELSE IF IsNumber(d.documentFrequency) THEN 2
    ELSE IF /\ Present(d.classWordCounts)
            /\ \E label \in {"spam", "ham"} : IsNumber(Value(d.classWordCounts)[label])
    THEN 5
    ELSE 0

\* deserialize(data) raises
deserializeRaises(data) == Present(data) /\ deserializeRaisesAt(Value(data)) > 0

\* deserialize(data): data is optional, and so is each of its properties.
\* The seven assignments are made in order, up to the one that raises.
deserialize(c, data) ==
    IF ~Present(data) THEN c
    ELSE LET d == Value(data)
             raisesAt == deserializeRaisesAt(d)
             reached(k) == raisesAt = 0 \/ k < raisesAt
         IN
         [c EXCEPT
            !.vocabulary =
                IF reached(1) THEN MapFrom(OrElse(d.vocabulary, <<>>)) ELSE @,
            !.documentFrequency =
                IF reached(2) THEN MapFrom(OrElse(d.documentFrequency, <<>>)) ELSE @,
            !.totalDocuments =
                IF reached(3) THEN OrElse(d.totalDocuments, 0) ELSE @,
            !.classDocCount =
                IF reached(4) THEN OrElse(d.classDocCount, ZeroCounts) ELSE @,
            !.classWordCounts =
                IF reached(5)
                THEN [spam |-> MapFrom(classWordCountsOf(d, "spam")),
                      ham |-> MapFrom(classWordCountsOf(d, "ham"))]
                ELSE @,
            !.classTotalWords =
                IF reached(6) THEN OrElse(d.classTotalWords, ZeroCounts) ELSE @,
            !.isTrained =
                IF reached(7) THEN OrElse(d.isTrained, FALSE) ELSE @]

\* ---------------------------------------------------------------------
\* The background script: checkAndMoveMessage
\* ---------------------------------------------------------------------
\* the verdicts of checkAndMoveMessage: { isSpam: false } and
\* { isSpam: true, method, probability, topKeywords }
NotSpam ==
    [isSpam |-> FALSE, method |-> None, probability |-> None, topKeywords |-> None]
SpamVerdict(method, probability, topKeywords) ==
    [isSpam |-> TRUE, method |-> Some(method), probability |-> Some(probability),
     topKeywords |-> Some(topKeywords)]

\* the path of the folder findSpamFolder finds
SpamPath == "/Spam"

\* the path of the folder the messages arrive in
InboxPath == "/INBOX"

\* a move that moves a message that is in the spam folder already
moveToSpamAgain(folder, env) ==
    IF env.spamFolder = "raises" THEN [raised |-> TRUE, moved |-> FALSE]
    ELSE IF env.spamFolder = "found"
    THEN [raised |-> ~env.moveOk, moved |-> env.moveOk]
    ELSE [raised |-> FALSE, moved |-> FALSE]

\* the block that moves a detected message: findSpamFolder returns a folder
\* or null, or raises; browser.messages.move moves the message or raises
moveToSpam(folder, env) ==
    IF env.spamFolder = "raises" THEN [raised |-> TRUE, moved |-> FALSE]
    ELSE IF env.spamFolder = "found" /\ folder # SpamPath
    THEN [raised |-> ~env.moveOk, moved |-> env.moveOk]
    ELSE [raised |-> FALSE, moved |-> FALSE]

\* checkAndMoveMessage(message, collectOnly) with the classifier c and the
\* settings s, for a message that is in folder, in the environment env:
\* the verdict it returns, whether it counted the message as scanned, moved
\* it and notified the user, whether it found a spam header, and the
\* prediction it asked for
checkAndMoveMessage(c, s, folder, message, collectOnly, env) ==
    LET outcome(verdict, scanned, move, header, prediction) ==
            [ verdict |-> IF move.raised THEN NotSpam ELSE verdict,
              scanned |-> scanned,
              moved |-> move.moved,
              notified |-> move.moved /\ s.notifyOnMove,
              header |-> header,
              prediction |-> prediction ]
        noMove == [raised |-> FALSE, moved |-> FALSE]
    IN
    IF ~s.enabled THEN outcome(NotSpam, FALSE, noMove, FALSE, None)
    ELSE IF hasSpamHeader(getMessageHeaders(message, env.headersOk))
    THEN outcome(SpamVerdict("header", Scale, <<>>), TRUE,
                 IF ~collectOnly THEN moveToSpam(folder, env) ELSE noMove,
                 TRUE, None)
    ELSE IF s.useMLClassifier /\ c.isTrained
    THEN LET emailData == ObjectArg(emailDataOf(message, env.bodyOk))
             prediction == Value(predict(c, emailData).value)
         IN IF prediction.label = "spam" /\ prediction.scores.spam >= s.mlThreshold
            THEN outcome(SpamVerdict("ml", prediction.scores.spam,
                                     Value(getTopFeatures(c, emailData, Some(5)).value)),
                         TRUE,
                         IF /\ ~collectOnly
                            /\ s.autoScan
                            /\ prediction.scores.spam >= autoMoveThresholdOf(s)
                         THEN moveToSpam(folder, env)
                         ELSE noMove,
                         FALSE, Some(prediction))
            ELSE outcome(NotSpam, TRUE, noMove, FALSE, Some(prediction))
    ELSE outcome(NotSpam, TRUE, noMove, FALSE, None)

\* the number of times its word is in an item of the corpus below
Repeats == 12

\* the corpus the classifier of the background script was trained on
MailCorpus ==
    << TextItem("spam", Repeat(TextFr, Repeats)),
       TextItem("ham", Repeat(<<"m","t">>, Repeats)),
       TextItem("spam", Repeat(TextFr, Repeats)),
       TextItem("ham", Repeat(<<"m","t">>, Repeats)) >>

TrainedOnMail == train(New, MailCorpus)

\* ---------------------------------------------------------------------
\* The configurations and the snapshots of the model
\* ---------------------------------------------------------------------
Alphas == {1, 2}
MinDfs == {1, 2}

\* the properties of a snapshot
Properties ==
    { "vocabulary", "documentFrequency", "totalDocuments", "classDocCount",
      "classWordCounts", "classTotalWords", "isTrained" }

\* the snapshot without the properties of the set missing
without(snapshot, missing) ==
    [p \in Properties |-> IF p \in missing THEN None ELSE snapshot[p]]

\* the corpus the stored snapshots were trained on
StoredCorpus == <<SpamMail, HamText>>

\* the snapshot with the number 7 as its property p
withNumber(snapshot, p) == [snapshot EXCEPT ![p] = Number7]

\* the snapshot with the number 7 as the spam property of its classWordCounts
withNumberInside(snapshot) ==
    [snapshot EXCEPT !.classWordCounts =
        Some([Value(@) EXCEPT !.spam = Number7])]

\* the properties deserialize reads with new Map
Collections == {"vocabulary", "documentFrequency", "classWordCounts"}

\* what deserialize is given: nothing, a snapshot of a trained or of a new
\* classifier, one of these with one or all of its properties missing, or
\* the trained one with a number in the place of a collection
Snapshots ==
    {None} \cup
    { Some(without(serialize(c), missing)) :
        c \in {New, train(New, StoredCorpus)},
        missing \in {{}, Properties} \cup {{p} : p \in Properties} } \cup
    { Some(withNumber(serialize(train(New, StoredCorpus)), p)) : p \in Collections } \cup
    { Some(withNumberInside(serialize(train(New, StoredCorpus)))) }

\* ---------------------------------------------------------------------
\* The state machine: one classifier and the calls made on it
\* ---------------------------------------------------------------------
VARIABLES
    classifier,     \* the TfIdfNaiveBayes object
    call,           \* the last call made on it, with its argument
    result,         \* how that call ended
    fitted,         \* train has been called
    imported,       \* what deserialize has been given so far: "nothing", only
                    \* "untrained" snapshots, or a "trained" one
    repeated,       \* that call is the call before it, made again
    settings,       \* the settings of the background script
    stats,          \* its statistics
    folderOf,       \* the path of the folder each message is in
    notifications,  \* the number of notifications shown
    storedTrainingData, \* let trainingData of the background script
    storage,        \* classifierModel in browser.storage.local
    handlers,       \* where each handler of the background script is
    trainedOn,      \* the trainingData the last train was called with
    started,        \* the number of handlers started so far
    heap,           \* the objects { spam, ham } that hold per-class counts
    allocated,      \* the number of these objects created so far
    instances,      \* two classifiers, their counts held by reference
    held,           \* the snapshots serialize returned, by reference too
    initialized,    \* initialize has run
    listeners,      \* the listeners added to onNewMailReceived
    arrived,        \* the messages that have arrived so far
    feedback,       \* the sample of the addTrainingData that is running,
                    \* and whether a train has had it in its corpus since
    scanProgress,   \* let scanProgress of the background script
    runs,           \* where each run of scanAllAccountsWithML is
    filteredResults \* the items of the results page

\* the handlers that are running and what they share
loop == <<storedTrainingData, storage, handlers, trainedOn, started>>

\* two classifiers and the snapshots that pass between them
objects == <<heap, allocated, instances, held>>

\* what the classifier of the model and the background script leave alone
\* the listener of new mail
arrival == <<initialized, listeners, arrived>>

\* what the handlers that train leave alone
\* the scans of all accounts, and the pages that show them
scan == <<scanProgress, runs>>
pages == <<scan, filteredResults>>

others == <<objects, arrival, pages>>

rest == <<others, feedback>>

\* the state of the background script besides its classifier
background == <<settings, stats, folderOf, notifications, loop, rest>>

vars == <<classifier, call, result, fitted, imported, repeated, background>>

\* a call that returns nothing
Undefined == [threw |-> FALSE, value |-> None]

\* the runs of scanAllAccountsWithML, and the items of the results page
MaxRuns == 2
MaxResults == 2

\* an item of the results page as the scan left it: no status, its
\* checkbox not checked; moved records that browser.messages.move moved
\* its message
NewResult == [status |-> None, checked |-> FALSE, moved |-> FALSE]

\* the counts objects that can be created, and the snapshots kept
MaxObjects == 10
MaxSnapshots == 2

\* two instances of TfIdfNaiveBayes, and their places in the heap
Names == {"a", "b"}
Place == [a |-> 1, b |-> 2]

\* new TfIdfNaiveBayes(), its classDocCount and classTotalWords being the
\* objects d and w
newWith(d, w) == [New EXCEPT !.classDocCount = d, !.classTotalWords = w]

\* the asynchronous handlers of the background script: the listener of
\* onNewMailReceived and the cases of onMessage that train
Handlers == {"newMail", "addTrainingData", "retrainClassifier", "trainFromFolders"}

\* a handler that is not running, and one that is suspended at the await
\* named at, having passed snapshot to browser.storage.local.set; since is
\* the training the classifier had when a check tested classifier.isTrained
Idle == [at |-> "idle", snapshot |-> None, since |-> None]
Suspended(at, snapshot) == [at |-> at, snapshot |-> snapshot, since |-> None]

Init ==
    /\ classifier = New
    /\ call = [op |-> "new"]
    /\ result = Undefined
    /\ fitted = FALSE
    /\ imported = "nothing"
    /\ repeated = FALSE
    /\ settings = DEFAULT_SETTINGS
    /\ stats = [scannedCount |-> 0, movedCount |-> 0]
    /\ folderOf = [id \in {m.id : m \in Messages} |->
                      IF id = JunkedMail.id THEN SpamPath ELSE InboxPath]
    /\ notifications = 0
    /\ storedTrainingData = <<>>
    /\ storage = None
    /\ handlers = [h \in Handlers |-> Idle]
    /\ trainedOn = None
    /\ started = 0
    /\ heap = [o \in 1..MaxObjects |-> ZeroCounts]
    /\ allocated = 2 * Cardinality(Names)
    /\ instances = [m \in Names |-> newWith(2 * Place[m] - 1, 2 * Place[m])]
    /\ held = <<>>
    /\ initialized = FALSE
    /\ listeners = 0
    /\ arrived = 0
    /\ feedback = [sample |-> None, learned |-> FALSE]
    /\ scanProgress = [isScanning |-> FALSE]
    /\ runs = [r \in 1..MaxRuns |-> "idle"]
    /\ filteredResults = [i \in 1..MaxResults |-> NewResult]

\* the call c is made
Called(c) ==
    /\ call' = c
    /\ repeated' = (c = call)

\* classifier.alpha = a
SetAlpha(a) ==
    /\ classifier' = [classifier EXCEPT !.alpha = a]
    /\ Called([op |-> "setAlpha", alpha |-> a])
    /\ result' = Undefined
    /\ UNCHANGED <<fitted, imported, background>>

\* classifier.minDf = k
SetMinDf(k) ==
    /\ classifier' = [classifier EXCEPT !.minDf = k]
    /\ Called([op |-> "setMinDf", minDf |-> k])
    /\ result' = Undefined
    /\ UNCHANGED <<fitted, imported, background>>

\* classifier.train(trainingData)
Train(trainingData) ==
    /\ classifier' = train(classifier, trainingData)
    /\ Called([op |-> "train", trainingData |-> trainingData])
    /\ result' = Undefined
    /\ fitted' = TRUE
    /\ UNCHANGED <<imported, background>>

\* a predict that counts the instance as a document of the corpus
PredictCounting(emailData) ==
    /\ result' = predict(classifier, emailData)
    /\ classifier' = [classifier EXCEPT !.totalDocuments = @ + 1]
    /\ Called([op |-> "predict", emailData |-> emailData])
    /\ UNCHANGED <<fitted, imported, background>>

\* classifier.predict(emailData)
Predict(emailData) ==
    /\ result' = predict(classifier, emailData)
    /\ Called([op |-> "predict", emailData |-> emailData])
    /\ UNCHANGED <<classifier, fitted, imported, background>>

\* classifier.serialize()
Serialize ==
    /\ result' = Return(serialize(classifier))
    /\ Called([op |-> "serialize"])
    /\ UNCHANGED <<classifier, fitted, imported, background>>

\* classifier.deserialize(data)
Deserialize(data) ==
    /\ classifier' = deserialize(classifier, data)
    /\ Called([op |-> "deserialize", data |-> data])
    /\ result' = IF deserializeRaises(data) THEN TypeError ELSE Undefined
    /\ imported' = IF ~Present(data) THEN imported
                   ELSE IF imported = "trained" \/ OrElse(Value(data).isTrained, FALSE)
                   THEN "trained"
                   ELSE "untrained"
    /\ UNCHANGED <<fitted, background>>

\* the n getTopFeatures is given: none, or a number of features
MaxN == 2
Ns == {None} \cup {Some(n) : n \in 0..MaxN}

\* classifier.getTopFeatures(emailData, n)
GetTopFeatures(emailData, n) ==
    /\ result' = getTopFeatures(classifier, emailData, n)
    /\ Called([op |-> "getTopFeatures", emailData |-> emailData, n |-> n])
    /\ UNCHANGED <<classifier, fitted, imported, background>>

Next ==
    \/ \E a \in Alphas : SetAlpha(a)
    \/ \E k \in MinDfs : SetMinDf(k)
    \/ \E trainingData \in Corpora : Train(trainingData)
    \/ \E emailData \in Args : Predict(emailData)
    \/ Serialize
    \/ \E data \in Snapshots : Deserialize(data)

Spec == Init /\ [][Next]_vars

\* "al@", an address without a domain
TextAt == <<"a","l","@">>

\* the records extractFeatures is given: each property is missing, empty or
\* a text, and the address may have no "@" or nothing after it
Records ==
    { EmailData(n, e, s, b) :
        n \in {None, Some(<<>>), Some(TextAl), Some(TextFrPr)},
        e \in {None, Some(<<>>), Some(TextAddress), Some(TextAl), Some(TextAt)},
        s \in {None, Some(<<>>), Some(TextFrPr), Some(TextPrPrA)},
        b \in {None, Some(<<>>), Some(TextTagMt), Some(TextPrUrl)} }

\* classifier.extractFeatures(emailData)
ExtractFeatures(emailData) ==
    /\ result' = Return(extractFeatures(emailData))
    /\ Called([op |-> "extractFeatures", emailData |-> emailData])
    /\ UNCHANGED <<classifier, fitted, imported, background>>

\* the feature extractor alone, on every record
NextFeatures == \E emailData \in Records : ExtractFeatures(emailData)

SpecFeatures == Init /\ [][NextFeatures]_vars

\* the classifier as the background script uses it between two imports: it
\* is configured and trained, and asked for predictions and top features
NextTop ==
    \/ \E k \in MinDfs : SetMinDf(k)
    \/ \E trainingData \in Corpora : Train(trainingData)
    \/ \E emailData \in Args : Predict(emailData)
    \/ \E emailData \in Args, n \in Ns : GetTopFeatures(emailData, n)

SpecTop == Init /\ [][NextTop]_vars

\* ---------------------------------------------------------------------
\* Two classifiers and their snapshots, counts objects by reference
\* ---------------------------------------------------------------------
\* the classifier or snapshot c with the counts that its references name
\* in the heap h
deref(h, c) == [c EXCEPT !.classDocCount = h[@], !.classTotalWords = h[@]]
derefSnapshot(h, d) ==
    [d EXCEPT !.classDocCount = Some(h[Value(@)]), !.classTotalWords = Some(h[Value(@)])]

\* the corpora the two classifiers are trained on
HeapCorpora == {<<SpamMail>>, <<HamText, SpamMail>>}

\* m.train(trainingData): the reset gives the two properties new objects,
\* the loop counts in them
HeapTrain(m, trainingData) ==
    /\ allocated + 2 <= MaxObjects
    /\ \E trained \in {train(deref(heap, instances[m]), trainingData)} :
          LET w == newObject(instances[m].classTotalWords, allocated + 1)
              d == newObject(instances[m].classDocCount, allocated + 2)
          IN /\ heap' = [heap EXCEPT ![w] = trained.classTotalWords,
                                     ![d] = trained.classDocCount]
             /\ instances' = [instances EXCEPT
                                 ![m] = [trained EXCEPT !.classTotalWords = w,
                                                        !.classDocCount = d]]
    /\ allocated' = allocated + 2
    /\ Called([op |-> "train", on |-> m, trainingData |-> trainingData])
    /\ result' = Undefined
    /\ UNCHANGED <<classifier, fitted, imported, held,
                   settings, stats, folderOf, notifications, loop,
                   arrival, feedback, pages>>

\* m.predict(emailData)
HeapPredict(m, emailData) ==
    /\ result' = predict(deref(heap, instances[m]), emailData)
    /\ Called([op |-> "predict", on |-> m, emailData |-> emailData])
    /\ UNCHANGED <<classifier, fitted, imported, objects,
                   settings, stats, folderOf, notifications, loop,
                   arrival, feedback, pages>>

\* m.serialize(): classDocCount and classTotalWords of the snapshot are the
\* objects of m
HeapSerialize(m) ==
    /\ Len(held) < MaxSnapshots
    /\ held' = Append(held, serialize(instances[m]))
    /\ Called([op |-> "serialize", on |-> m])
    /\ result' = Return(serialize(instances[m]))
    /\ UNCHANGED <<classifier, fitted, imported, heap, allocated, instances,
                   settings, stats, folderOf, notifications, loop,
                   arrival, feedback, pages>>

\* m.deserialize(data) for the snapshot data = held[i]: classDocCount and
\* classTotalWords of m are the objects of the snapshot
HeapDeserialize(m, i) ==
    /\ i \in 1..Len(held)
    /\ instances' = [instances EXCEPT ![m] = deserialize(instances[m], Some(held[i]))]
    /\ Called([op |-> "deserialize", on |-> m, held |-> i])
    /\ result' = Undefined
    /\ UNCHANGED <<classifier, fitted, imported, heap, allocated, held,
                   settings, stats, folderOf, notifications, loop,
                   arrival, feedback, pages>>

NextHeap ==
    \/ \E m \in Names, trainingData \in HeapCorpora : HeapTrain(m, trainingData)
    \/ \E m \in Names : HeapPredict(m, StringArg(TextPrUrl))
    \/ \E m \in Names : HeapSerialize(m)
    \/ \E m \in Names, i \in 1..MaxSnapshots : HeapDeserialize(m, i)

SpecHeap == Init /\ [][NextHeap]_vars

\* ---------------------------------------------------------------------
\* The background script: the corpus of trainFromMailboxFolders
\* ---------------------------------------------------------------------
Min(a, b) == IF a < b THEN a ELSE b

\* Math.ceil(a / b) for a >= 0 and b >= 1
Ceil(a, b) == (a + b - 1) \div b

\* collectTrainingDataFromFolder(folder, label, maxSamples) for a folder of
\* so many messages: a sample for each message, up to maxSamples of them;
\* a sample is written as its label
collectTrainingDataFromFolder(folder, label, maxSamples) ==
    [i \in 1..Min(folder, maxSamples) |-> label]

\* the loop over the folders of a class: for (const folder of folders),
\* with its break and its concat
RECURSIVE collectFrom(_, _, _, _, _)
collectFrom(folders, label, perFolder, target, samples) ==
    IF folders = <<>> \/ Len(samples) >= target THEN samples
    ELSE collectFrom(Tail(folders), label, perFolder, target,
                     samples \o collectTrainingDataFromFolder(
                                    Head(folders), label,
                                    Min(perFolder, target - Len(samples))))

\* allTrainingData.length < 10
MinTrainingData == 10

\* the labels of getDefaultTrainingData()
getDefaultTrainingData ==
    <<"spam", "spam", "spam", "spam", "spam", "spam", "spam",
      "ham", "ham", "ham", "ham", "ham", "ham", "ham">>

\* allTrainingData: the corpus trainFromMailboxFolders assembles from
\* the spam folders and the inbox folders found, before it shuffles it
assembleTrainingData(spamFolders, inboxFolders, maxPerClass) ==
    LET spamPerFolder == Ceil(maxPerClass, Max(Len(spamFolders), 1))
        spamSamples == collectFrom(spamFolders, "spam", spamPerFolder, maxPerClass, <<>>)
        targetHamCount == Len(spamSamples)
        hamPerFolder == Ceil(targetHamCount, Max(Len(inboxFolders), 1))
        hamSamples == collectFrom(inboxFolders, "ham", hamPerFolder, targetHamCount, <<>>)
        collected == spamSamples \o hamSamples
    IN [ spamCount |-> Len(spamSamples),
         hamCount |-> Len(hamSamples),
         trainingData |-> IF Len(collected) < MinTrainingData
                          THEN getDefaultTrainingData
                          ELSE collected ]

\* the folders hold no message, a few or more; an account set has up to
\* MaxFolders folders of a kind
MaxFolders == 2
FolderSizes == {0, 3, 8}
FolderLists == UNION {[1..n -> FolderSizes] : n \in 0..MaxFolders}

\* settings.maxTrainingSamples || 500
MaxPerClass == {500, 5}

\* trainFromMailboxFolders, up to the corpus it trains the classifier on,
\* which depends on the folders alone: one call
CollectTrainingData(spamFolders, inboxFolders, maxPerClass) ==
    /\ call.op = "new"
    /\ result' = Return(assembleTrainingData(spamFolders, inboxFolders, maxPerClass))
    /\ Called([op |-> "trainFromMailboxFolders", spamFolders |-> spamFolders,
               inboxFolders |-> inboxFolders, maxPerClass |-> maxPerClass])
    /\ UNCHANGED <<classifier, fitted, imported, background>>

NextCollect ==
    \E spamFolders \in FolderLists, inboxFolders \in FolderLists,
       maxPerClass \in MaxPerClass :
        CollectTrainingData(spamFolders, inboxFolders, maxPerClass)

SpecCollect == Init /\ [][NextCollect]_vars

\* ---------------------------------------------------------------------
\* The tokenizer alone
\* ---------------------------------------------------------------------
\* the characters of the texts: letters of both cases, a digit, a space,
\* the characters of tags and addresses, an ideograph and a sign
TextChars == {"A", "b", "7", " ", "<", ">", "@", ".", "!", "U+4E2D"}

\* the texts are of at most MaxLength characters
MaxLength == 3

\* the texts tokenize is given: none, every text of these characters, and
\* three longer ones with a URL, an address and a tag
Texts ==
    {None}
        \cup {Some(t) : t \in UNION {[1..n -> TextChars] : n \in 0..MaxLength}}
        \cup {Some(TextPrUrl), Some(TextAddress), Some(TextTagMt)}

\* classifier.tokenize(text), which reads and writes no property of the
\* classifier: one call on a new classifier
Tokenize(text) ==
    /\ call.op = "new"
    /\ result' = Return(tokenize(text))
    /\ Called([op |-> "tokenize", text |-> text])
    /\ UNCHANGED <<classifier, fitted, imported, background>>

NextTokens == \E text \in Texts : Tokenize(text)

SpecTokens == Init /\ [][NextTokens]_vars

\* ---------------------------------------------------------------------
\* The classifier on a corpus of two mails
\* ---------------------------------------------------------------------
\* 'Win a free prize now', 'prize prize click'
TextWin == <<"W","i","n"," ","a"," ","f","r","e","e"," ","p","r","i","z","e"," ","n","o","w">>
TextClick == <<"p","r","i","z","e"," ","p","r","i","z","e"," ","c","l","i","c","k">>

\* 'Meeting notes', 'meeting notes attached'
TextMeeting == <<"M","e","e","t","i","n","g"," ","n","o","t","e","s">>
TextAttached == <<"m","e","e","t","i","n","g"," ","n","o","t","e","s"," ","a","t","t","a","c","h","e","d">>

\* 'free prize', 'prize'
TextFree == <<"f","r","e","e"," ","p","r","i","z","e">>
TextPrize == <<"p","r","i","z","e">>

PrizeMail == MailItem("spam", EmailData(None, None, Some(TextWin), Some(TextClick)))
MeetingMail == MailItem("ham", EmailData(None, None, Some(TextMeeting), Some(TextAttached)))

\* the corpora of these two mails, of at most MaxMails items
MaxMails == 2
MailCorpora == UNION {[1..n -> {PrizeMail, MeetingMail}] : n \in 0..MaxMails}

\* the instances: 'free prize' with body 'prize', the subject of the ham
\* mail alone, and a record of no property
FreePrize == ObjectArg(EmailData(None, None, Some(TextFree), Some(TextPrize)))
MailInstances ==
    { FreePrize,
      ObjectArg(EmailData(None, None, Some(TextMeeting), None)),
      ObjectArg(EmailData(None, None, None, None)) }

NextMails ==
    \/ \E k \in MinDfs : SetMinDf(k)
    \/ \E trainingData \in MailCorpora : Train(trainingData)
    \/ \E emailData \in MailInstances : Predict(emailData)

SpecMails == Init /\ [][NextMails]_vars

\* ---------------------------------------------------------------------
\* The background script: settings and message checks, one call at a time
\* ---------------------------------------------------------------------
\* the most messages counted as scanned
MaxScans == 1

SettingNames == DOMAIN DEFAULT_SETTINGS

\* message.settings as the options page sends it: every property is set
Form(enabled, autoScan, notifyOnMove, useMLClassifier, mlThreshold, autoMoveThreshold) ==
    [ enabled           |-> Some(enabled),
      autoScan          |-> Some(autoScan),
      notifyOnMove      |-> Some(notifyOnMove),
      useMLClassifier   |-> Some(useMLClassifier),
      mlThreshold       |-> Some(mlThreshold),
      autoMoveThreshold |-> Some(autoMoveThreshold) ]

\* the forms saved: the defaults, no auto-scan, no classifier, and lower
\* and higher thresholds, without and with notifications
Changes ==
    { Form(TRUE, TRUE, TRUE, TRUE, 700, 990),
      Form(TRUE, FALSE, TRUE, TRUE, 700, 990),
      Form(TRUE, TRUE, TRUE, FALSE, 700, 990),
      Form(TRUE, TRUE, FALSE, TRUE, 500, 950),
      Form(TRUE, TRUE, TRUE, TRUE, 500, 1000) }

\* { ...settings, ...message.settings }
merge(s, changes) ==
    [q \in SettingNames |->
        IF ~Present(changes[q]) THEN s[q]
        ELSE IF q = "autoMoveThreshold" THEN changes[q]
        ELSE Value(changes[q])]

\* case "saveSettings"
SaveSettings(changes) ==
    /\ settings' = merge(settings, changes)
    /\ UNCHANGED <<classifier, call, result, fitted, imported, repeated,
                   stats, folderOf, notifications, loop, rest>>

\* case "toggle"
Toggle ==
    /\ settings' = [settings EXCEPT !.enabled = ~@]
    /\ UNCHANGED <<classifier, call, result, fitted, imported, repeated,
                   stats, folderOf, notifications, loop, rest>>

\* what the browser does during a check: getFull answers or fails, for the
\* headers and for the body; findSpamFolder finds the folder, finds none
\* ("null") or raises; move moves the message or raises
Env(headersOk, bodyOk, spamFolder, moveOk) ==
    [headersOk |-> headersOk, bodyOk |-> bodyOk, spamFolder |-> spamFolder,
     moveOk |-> moveOk]

Envs ==
    { Env(TRUE, TRUE, "found", TRUE), Env(FALSE, TRUE, "found", TRUE),
      Env(TRUE, FALSE, "found", TRUE), Env(TRUE, TRUE, "null", TRUE),
      Env(TRUE, TRUE, "raises", TRUE), Env(TRUE, TRUE, "found", FALSE) }

\* checkAndMoveMessage(message, collectOnly), from its call to its return
CheckAndMoveMessage(message, collectOnly, env) ==
    /\ stats.scannedCount < MaxScans
    /\ \E done \in {checkAndMoveMessage(classifier, settings, folderOf[message.id],
                                         message, collectOnly, env)} :
          /\ result' = Return(done)
          /\ stats' = [scannedCount |-> stats.scannedCount + (IF done.scanned THEN 1 ELSE 0),
                       movedCount |-> stats.movedCount + (IF done.moved THEN 1 ELSE 0)]
          /\ folderOf' = IF done.moved THEN [folderOf EXCEPT ![message.id] = SpamPath]
                         ELSE folderOf
          /\ notifications' = notifications + (IF done.notified THEN 1 ELSE 0)
    /\ Called([op |-> "checkAndMoveMessage", message |-> message,
               folder |-> folderOf[message.id], collectOnly |-> collectOnly,
               env |-> env])
    /\ UNCHANGED <<classifier, fitted, imported, settings, loop, rest>>

\* the snapshot initialize finds in the storage
StoredModel == Some(serialize(TrainedOnMail))

NextMail ==
    \/ Deserialize(StoredModel)
    \/ \E changes \in Changes : SaveSettings(changes)
    \/ Toggle
    \/ \E message \in Messages, collectOnly \in BOOLEAN, env \in Envs :
           CheckAndMoveMessage(message, collectOnly, env)

SpecMail == Init /\ [][NextMail]_vars

\* ---------------------------------------------------------------------
\* The background script: the listener of new mail
\* ---------------------------------------------------------------------
\* the most messages that arrive
MaxArrivals == 1

\* what initialize finds as settings in the storage: nothing, or a form
\* that was saved
StoredSettings == {None} \cup {Some(changes) : changes \in Changes}

\* initialize(): the settings and the model are loaded, and the listener of
\* new mail is added if settings.autoScan is on then
Initialize(stored) ==
    /\ ~initialized
    /\ initialized' = TRUE
    /\ settings' = IF Present(stored) THEN merge(DEFAULT_SETTINGS, Value(stored))
                   ELSE settings
    /\ classifier' = deserialize(classifier, StoredModel)
    /\ imported' = "trained"
    /\ listeners' = IF settings'.autoScan THEN listeners + 1 ELSE listeners
    /\ Called([op |-> "initialize", stored |-> stored])
    /\ result' = Undefined
    /\ UNCHANGED <<fitted, stats, folderOf, notifications, loop, objects, arrived,
                   feedback, pages>>

\* a message arrives: onNewMailReceived calls its listeners, and the
\* listener of setupMessageListener checks the message if settings.enabled
OnNewMailReceived(message, env) ==
    /\ arrived < MaxArrivals
    /\ arrived' = arrived + 1
    /\ folderOf[message.id] = InboxPath
    /\ \E done \in {checkAndMoveMessage(classifier,
                                         [settings EXCEPT !.enabled = @ /\ listeners > 0],
                                         folderOf[message.id], message, FALSE, env)} :
          /\ result' = Return(done)
          /\ stats' = [scannedCount |-> stats.scannedCount + (IF done.scanned THEN 1 ELSE 0),
                       movedCount |-> stats.movedCount + (IF done.moved THEN 1 ELSE 0)]
          /\ folderOf' = IF done.moved THEN [folderOf EXCEPT ![message.id] = SpamPath]
                         ELSE folderOf
          /\ notifications' = notifications + (IF done.notified THEN 1 ELSE 0)
    /\ Called([op |-> "onNewMailReceived", message |-> message, env |-> env])
    /\ UNCHANGED <<classifier, fitted, imported, settings, loop, objects,
                   initialized, listeners, feedback, pages>>

NextArrival ==
    \/ \E stored \in StoredSettings : Initialize(stored)
    \/ \E changes \in Changes : initialized /\ SaveSettings(changes)
    \/ initialized /\ Toggle
    \/ \E message \in Messages, env \in Envs : OnNewMailReceived(message, env)

SpecArrival == Init /\ [][NextArrival]_vars

\* ---------------------------------------------------------------------
\* The background script: scanAllAccountsWithML and its progress
\* ---------------------------------------------------------------------
\* the awaits of scanAllAccountsWithML
Awaits == {"accounts.list", "scanFolderWithML", "saveStats", "storage.local.set"}

\* what the runs and the pages leave alone
beside == <<classifier, fitted, imported, repeated, stats, folderOf, notifications,
            loop, objects, arrival, feedback>>

\* case "scanAll": scanAllAccountsWithML up to await browser.accounts.list();
\* it returns at once when settings.enabled is off
ScanAll(r) ==
    /\ runs[r] = "idle"
    /\ IF settings.enabled
       THEN /\ scanProgress' = [isScanning |-> TRUE]
            /\ runs' = [runs EXCEPT ![r] = "accounts.list"]
       ELSE /\ runs' = [runs EXCEPT ![r] = "returned"]
            /\ UNCHANGED scanProgress
    /\ UNCHANGED <<beside, call, result, settings, filteredResults>>

\* the await the run r is suspended at ends: the run goes on to the next
\* one, or the call raised and the run ends with its exception;
\* scanFolderWithML catches what is raised inside it
Proceed(r, at, next, ok) ==
    /\ runs[r] = at
    /\ runs' = [runs EXCEPT ![r] = IF ok THEN next ELSE "raised"]
    /\ UNCHANGED <<beside, call, result, settings, scanProgress, filteredResults>>

\* browser.storage.local.set({ scanResults }) ends: scanProgress.isScanning
\* = false and the run returns, or the call raised
Finish(r, ok) ==
    /\ runs[r] = "storage.local.set"
    /\ runs' = [runs EXCEPT ![r] = IF ok THEN "returned" ELSE "raised"]
    /\ scanProgress' = IF ok THEN [isScanning |-> FALSE] ELSE scanProgress
    /\ UNCHANGED <<beside, call, result, settings, filteredResults>>

\* pollProgress of the popup: case "getProgress" answers scanProgress
PollProgress ==
    /\ Called([op |-> "getProgress"])
    /\ result' = Return(scanProgress)
    /\ UNCHANGED <<classifier, fitted, imported, background>>

NextScan ==
    \/ \E r \in 1..MaxRuns : ScanAll(r)
    \/ \E r \in 1..MaxRuns, ok \in BOOLEAN :
           Proceed(r, "accounts.list", "scanFolderWithML", ok)
    \/ \E r \in 1..MaxRuns : Proceed(r, "scanFolderWithML", "saveStats", TRUE)
    \/ \E r \in 1..MaxRuns, ok \in BOOLEAN :
           Proceed(r, "saveStats", "storage.local.set", ok)
    \/ \E r \in 1..MaxRuns, ok \in BOOLEAN : Finish(r, ok)
    \/ PollProgress
    \/ Toggle

SpecScan == Init /\ [][NextScan]_vars

\* ---------------------------------------------------------------------
\* The results page: Move and Move Selected
\* ---------------------------------------------------------------------
\* case "moveMessage": what the background script answers, and whether the
\* message was moved; env.headersOk stands for browser.messages.get
\* answering
moveMessage(env) ==
    IF ~env.headersOk \/ env.spamFolder = "raises"
    THEN [success |-> FALSE, moved |-> FALSE]
    ELSE IF env.spamFolder = "found"
    THEN [success |-> env.moveOk, moved |-> env.moveOk]
    ELSE [success |-> FALSE, moved |-> FALSE]

\* browser.runtime.sendMessage({ action: "moveMessage" }): the answer of the
\* background script, or nothing when the promise is rejected
Answers == {None} \cup {Some(moveMessage(env)) : env \in Envs}

\* the item after an answer that moved the message
afterAnswer(item, answer) ==
    [item EXCEPT !.moved = @ \/ (Present(answer) /\ Value(answer).moved)]

\* the checkbox of the row i is clicked; it is disabled once the item has a
\* status
Check(i) ==
    /\ ~Present(filteredResults[i].status)
    /\ filteredResults' = [filteredResults EXCEPT ![i].checked = ~@]
    /\ Called([op |-> "check", index |-> i])
    /\ result' = Undefined
    /\ UNCHANGED <<beside, settings, scan>>

\* moveToSpam(index) of the results page
MoveToSpam(i, answer) ==
    /\ ~Present(filteredResults[i].status)
    /\ filteredResults' =
           [filteredResults EXCEPT ![i] =
               IF Present(answer) /\ Value(answer).success
               THEN [afterAnswer(@, answer) EXCEPT !.status = Some("moved")]
               ELSE afterAnswer(@, answer)]
    /\ Called([op |-> "moveToSpam", index |-> i, answer |-> answer])
    /\ result' = Undefined
    /\ UNCHANGED <<beside, settings, scan>>

\* markSafe(index) of the results page
MarkSafe(i) ==
    /\ ~Present(filteredResults[i].status)
    /\ filteredResults' = [filteredResults EXCEPT ![i].status = Some("safe")]
    /\ Called([op |-> "markSafe", index |-> i])
    /\ result' = Undefined
    /\ UNCHANGED <<beside, settings, scan>>

\* getSelectedItems(): the items checked that have no status
getSelectedItems(results) ==
    {i \in DOMAIN results : results[i].checked /\ ~Present(results[i].status)}

\* moveSelected() of the results page, confirmed; answers[i] is what
\* sendMessage gives for the item i
MoveSelected(answers) ==
    /\ getSelectedItems(filteredResults) # {}
    /\ filteredResults' =
           [i \in DOMAIN filteredResults |->
               IF i \notin getSelectedItems(filteredResults) THEN filteredResults[i]
               ELSE IF Present(answers[i])
               THEN [afterAnswer(filteredResults[i], answers[i]) EXCEPT
                        !.status = Some("moved")]
               ELSE filteredResults[i]]
    /\ Called([op |-> "moveSelected", answers |-> answers])
    /\ result' = Undefined
    /\ UNCHANGED <<beside, settings, scan>>

NextResults ==
    \/ \E i \in 1..MaxResults : Check(i)
    \/ \E i \in 1..MaxResults, answer \in Answers : MoveToSpam(i, answer)
    \/ \E i \in 1..MaxResults : MarkSafe(i)
    \/ \E answers \in [1..MaxResults -> Answers] : MoveSelected(answers)

SpecResults == Init /\ [][NextResults]_vars

\* ---------------------------------------------------------------------
\* The background script: its handlers, from one await to the next
\* ---------------------------------------------------------------------
\* the handlers started and the samples added are bounded
MaxHandlers == 3
MaxSamples == 2

\* an item of trainingData labelled ham
HamMail == MailItem("ham", EmailData(Some(<<>>), Some(<<>>), Some(TextMtPr), Some(<<>>)))

\* the samples addTrainingData is sent
Samples == {SpamMail, HamMail}

\* message.trainingData of retrainClassifier: not given, or given
GivenData == {None, Some(<<HamMail>>)}

\* allTrainingData of trainFromMailboxFolders, collected and shuffled
CollectedData == {<<SpamMail, HamMail>>, <<HamMail, SpamMail>>}

\* the message that arrives
NewMail == LikelySpam

\* a handler starts: it runs up to its first await
Start(h, at) ==
    /\ started < MaxHandlers
    /\ handlers[h] = Idle
    /\ started' = started + 1
    /\ handlers' = [handlers EXCEPT ![h] = Suspended(at, None)]

\* a handler goes on from the await it is suspended at, to the next one
Resume(h, at, next) ==
    /\ handlers[h].at = at
    /\ handlers' = [handlers EXCEPT ![h] = next]
    /\ UNCHANGED started

\* a train on the corpus data learns the sample of the addTrainingData that
\* is running if the corpus holds it
Learn(data) ==
    feedback' = IF Present(feedback.sample) /\ Value(feedback.sample) \in Range(data)
                THEN [feedback EXCEPT !.learned = TRUE]
                ELSE feedback

\* classifier.train(trainingData), then saveClassifierModel() up to its
\* await: classifier.serialize() is evaluated before storage.local.set
TrainAndSave(h, at, data) ==
    /\ classifier' = train(classifier, data)
    /\ trainedOn' = Some(data)
    /\ fitted' = TRUE
    /\ Learn(data)
    /\ Resume(h, at, Suspended("saveClassifierModel", Some(serialize(classifier'))))
    /\ Called([op |-> "serialize", handler |-> h])
    /\ result' = Return(serialize(classifier'))

\* onNewMailReceived: checkAndMoveMessage up to await getMessageHeaders
NewMailReceived ==
    /\ settings.enabled
    /\ Start("newMail", "getMessageHeaders")
    /\ UNCHANGED <<classifier, call, result, fitted, imported, repeated,
                   settings, stats, folderOf, notifications, rest,
                   storedTrainingData, storage, trainedOn>>

\* checkAndMoveMessage from the headers to await getMessageBodyText, for
\* a message without a spam header
NewMailHeaders ==
    /\ Resume("newMail", "getMessageHeaders",
              IF settings.useMLClassifier /\ classifier.isTrained
              THEN [Suspended("getMessageBodyText", None) EXCEPT !.since = trainedOn]
              ELSE Idle)
    /\ UNCHANGED <<classifier, call, result, fitted, imported, repeated,
                   settings, stats, folderOf, notifications, rest,
                   storedTrainingData, storage, trainedOn>>

\* checkAndMoveMessage from the body on: classifier.predict(emailData)
NewMailPredict ==
    /\ Resume("newMail", "getMessageBodyText", Idle)
    /\ result' = predict(classifier, ObjectArg(emailDataOf(NewMail, TRUE)))
    /\ Called([op |-> "predict", handler |-> "newMail",
               since |-> handlers["newMail"].since])
    /\ UNCHANGED <<classifier, fitted, imported,
                   settings, stats, folderOf, notifications, rest,
                   storedTrainingData, storage, trainedOn>>

\* case "addTrainingData" up to await saveTrainingData()
AddTrainingData(newSample) ==
    /\ Len(storedTrainingData) < MaxSamples
    /\ Start("addTrainingData", "saveTrainingData")
    /\ storedTrainingData' = Append(storedTrainingData, newSample)
    /\ feedback' = [sample |-> Some(newSample), learned |-> FALSE]
    /\ UNCHANGED <<classifier, call, result, fitted, imported, repeated,
                   settings, stats, folderOf, notifications, others, storage, trainedOn>>

\* case "addTrainingData" from await saveTrainingData() to the await of
\* saveClassifierModel()
AddTrainingDataTrain ==
    /\ TrainAndSave("addTrainingData", "saveTrainingData", storedTrainingData)
    /\ UNCHANGED <<imported, settings, stats, folderOf, notifications, others,
                   storedTrainingData, storage>>

\* case "retrainClassifier" up to its first await: saveTrainingData() when
\* message.trainingData is given, else that of saveClassifierModel()
RetrainClassifier(given) ==
    /\ started < MaxHandlers
    /\ handlers["retrainClassifier"] = Idle
    /\ started' = started + 1
    /\ IF Present(given)
       THEN /\ storedTrainingData' = Value(given)
            /\ handlers' = [handlers EXCEPT
                               !["retrainClassifier"] = Suspended("saveTrainingData", None)]
            /\ UNCHANGED <<classifier, call, result, fitted, repeated, trainedOn,
                           feedback>>
       ELSE /\ classifier' = train(classifier, storedTrainingData)
            /\ trainedOn' = Some(storedTrainingData)
            /\ Learn(storedTrainingData)
            /\ fitted' = TRUE
            /\ handlers' = [handlers EXCEPT
                               !["retrainClassifier"] =
                                   Suspended("saveClassifierModel",
                                             Some(serialize(classifier')))]
            /\ Called([op |-> "serialize", handler |-> "retrainClassifier"])
            /\ result' = Return(serialize(classifier'))
            /\ UNCHANGED storedTrainingData
    /\ UNCHANGED <<imported, settings, stats, folderOf, notifications, others, storage>>

\* case "retrainClassifier" from await saveTrainingData() on
RetrainClassifierTrain ==
    /\ TrainAndSave("retrainClassifier", "saveTrainingData", storedTrainingData)
    /\ UNCHANGED <<imported, settings, stats, folderOf, notifications, others,
                   storedTrainingData, storage>>

\* case "trainFromFolders": trainFromMailboxFolders up to its first await
TrainFromFolders ==
    /\ Start("trainFromFolders", "collectTrainingData")
    /\ UNCHANGED <<classifier, call, result, fitted, imported, repeated,
                   settings, stats, folderOf, notifications, rest,
                   storedTrainingData, storage, trainedOn>>

\* trainFromMailboxFolders from the last sample collected to await
\* saveTrainingData()
TrainFromFoldersTrain(allTrainingData) ==
    /\ Resume("trainFromFolders", "collectTrainingData",
              Suspended("saveTrainingData", None))
    /\ storedTrainingData' = allTrainingData
    /\ classifier' = train(classifier, allTrainingData)
    /\ trainedOn' = Some(allTrainingData)
    /\ fitted' = TRUE
    /\ Learn(allTrainingData)
    /\ Called([op |-> "train", handler |-> "trainFromFolders"])
    /\ result' = Undefined
    /\ UNCHANGED <<imported, settings, stats, folderOf, notifications, others, storage>>

\* trainFromMailboxFolders from await saveTrainingData() to the await of
\* saveClassifierModel()
TrainFromFoldersSave ==
    /\ Resume("trainFromFolders", "saveTrainingData",
              Suspended("saveClassifierModel", Some(serialize(classifier))))
    /\ Called([op |-> "serialize", handler |-> "trainFromFolders"])
    /\ result' = Return(serialize(classifier))
    /\ UNCHANGED <<classifier, fitted, imported,
                   settings, stats, folderOf, notifications, rest,
                   storedTrainingData, storage, trainedOn>>

\* browser.storage.local.set({ classifierModel }) ends and the handler
\* returns { success: true }
Saved(h) ==
    /\ Resume(h, "saveClassifierModel", Idle)
    /\ storage' = handlers[h].snapshot
    /\ feedback' = IF h = "addTrainingData" THEN [sample |-> None, learned |-> FALSE]
                   ELSE feedback
    /\ UNCHANGED <<classifier, call, result, fitted, imported, repeated,
                   settings, stats, folderOf, notifications, others,
                   storedTrainingData, trainedOn>>

NextLoop ==
    \/ NewMailReceived
    \/ NewMailHeaders
    \/ NewMailPredict
    \/ \E newSample \in Samples : AddTrainingData(newSample)
    \/ AddTrainingDataTrain
    \/ \E given \in GivenData : RetrainClassifier(given)
    \/ RetrainClassifierTrain
    \/ TrainFromFolders
    \/ \E allTrainingData \in CollectedData : TrainFromFoldersTrain(allTrainingData)
    \/ TrainFromFoldersSave
    \/ \E h \in Handlers : Saved(h)

SpecLoop == Init /\ [][NextLoop]_vars

\* ---------------------------------------------------------------------
\* Properties
\* ---------------------------------------------------------------------
Accumulators(c) ==
    << c.documentFrequency, c.vocabulary, c.classWordCounts, c.classTotalWords,
       c.classDocCount, c.totalDocuments >>

EmptyAccumulators(c) ==
    Accumulators(c) = << <<>>, <<>>, [spam |-> <<>>, ham |-> <<>>], ZeroCounts, ZeroCounts, 0 >>

\* a freshly constructed classifier with the configuration of c
Fresh(c) == [New EXCEPT !.alpha = c.alpha, !.minDf = c.minDf]

\* the state is the one train(trainingData) left
Trained == call.op = "train"

\* the words added to an instance
ExtraWords == {<<"z","z">>, <<"f","r">>, <<"m","t">>}

\* the argument x with n occurrences of the word w added: to the string, or
\* to the body of the record
RECURSIVE withWord(_, _, _)
withWord(x, w, n) ==
    IF n = 0 THEN x
    ELSE withWord(
             IF x.kind = "string"
             THEN StringArg(Value(x.text) \o <<" ">> \o w)
             ELSE LET e == Value(x.emailData) IN
                  ObjectArg([e EXCEPT !.body = Some(OrElse(@, <<>>) \o <<" ">> \o w)]),
             w, n - 1)

Instances == Args \ {UndefinedArg}

\* C1: a new classifier that imports the snapshot exported by a classifier
\* that was only constructed, configured and trained predicts as that
\* classifier does, on every input.
C1_RoundTrip ==
    imported = "nothing" =>
        \A x \in Args :
            predict(deserialize(New, Some(serialize(classifier))), x)
                = predict(classifier, x)

\* C2: on a trained classifier, a word never seen in training, added to an
\* instance, does not make predict fail and leaves both scores as they are
\* without it.
C2_UnseenWordIgnored ==
    classifier.isTrained =>
        \A x \in Instances, w \in ExtraWords :
            ~MapHas(classifier.documentFrequency, w) =>
                /\ ~predict(classifier, withWord(x, w, 1)).threw
                /\ Value(predict(classifier, withWord(x, w, 1)).value).scores
                       = Value(predict(classifier, x).value).scores

\* C3: after train, a feature whose document frequency is below minDf
\* leaves the log-scores of every instance as they are without it, however
\* many times it occurs in the instance.
C3_BelowThresholdIgnored ==
    Trained =>
        \A x \in Instances, w \in ExtraWords, n \in 1..2 :
            MapGetOr0(classifier.documentFrequency, w) < classifier.minDf =>
                logProbs(classifier, Value(argFeatures(withWord(x, w, n)).value))
                    = logProbs(classifier, Value(argFeatures(x).value))

\* C4, as claimed: after train([]) every accumulator is empty or zero and the
\* trained flag is true.
C4_EmptyFitSetsFlag ==
    (Trained /\ call.trainingData = <<>>) =>
        (EmptyAccumulators(classifier) /\ classifier.isTrained)

\* C4, amended: train([]) leaves every accumulator empty or zero and the
\* trained flag as it was before the call.
C4_EmptyFitKeepsFlag ==
    [][(call'.op = "train" /\ call'.trainingData = <<>>) =>
          (EmptyAccumulators(classifier') /\ classifier'.isTrained = classifier.isTrained)]_vars

\* train([]) on a classifier that was never trained: it is still untrained
C4_Witness ==
    /\ Trained
    /\ call.trainingData = <<>>
    /\ EmptyAccumulators(classifier)
    /\ ~classifier.isTrained

\* C5: after train(D) with D not empty, whatever the classifier held before,
\* every accumulator is the one train(D) builds on a new classifier of the
\* same configuration, and the trained flag is true.
C5_FitDiscardsPriorState ==
    (Trained /\ call.trainingData # <<>>) =>
        /\ Accumulators(classifier) = Accumulators(train(Fresh(classifier), call.trainingData))
        /\ classifier.isTrained

\* a corpus fitted on a classifier that had imported a trained snapshot
C5_Witness ==
    /\ Trained
    /\ call.trainingData # <<>>
    /\ imported = "trained"
    /\ call.trainingData # StoredCorpus
    /\ classifier.isTrained

\* C6: a train(D) that follows a train(D) leaves the serialized state, the
\* order of its entries included, as the first left it.
C6_IdempotentFit ==
    [][(call.op = "train" /\ call'.op = "train" /\ call'.trainingData = call.trainingData) =>
          serialize(classifier') = serialize(classifier)]_vars

\* train(D) twice in succession, D not empty, on a classifier that imported
\* nothing
C6_Witness ==
    /\ Trained
    /\ repeated
    /\ call.trainingData # <<>>
    /\ imported = "nothing"
    /\ classifier.vocabulary # <<>>

\* C7: predict on a classifier that was never fitted and imported no trained
\* snapshot returns the 'unknown' result for every argument and leaves the
\* classifier as it is.
C7_UntrainedSafety ==
    [][(call'.op = "predict" /\ ~fitted' /\ imported' # "trained") =>
          (result' = Return(Unknown) /\ classifier' = classifier)]_vars

\* predict(undefined) on a classifier that was never fitted
C7_Witness ==
    /\ call.op = "predict"
    /\ call.emailData = UndefinedArg
    /\ ~fitted
    /\ imported = "untrained"
    /\ result = Return(Unknown)

\* C8: after train on a corpus labelled spam or ham, the documents counted
\* for spam and for ham add up to totalDocuments.
C8_DocCountsAddUp ==
    Trained =>
        classifier.classDocCount.spam + classifier.classDocCount.ham
            = classifier.totalDocuments

\* the features item i of the corpus D is counted with
docFeatures(D, i) == Range(OrElse(itemFeatures(D[i]), <<>>))

\* the features of the model's items, and one that is in none
AllFeatures ==
    UNION {Range(OrElse(itemFeatures(item), <<>>)) : item \in Items} \cup {<<"z","z">>}

\* C9: after train(D), the document frequency of every feature is the number
\* of documents of D that hold it at least once, and at most totalDocuments.
C9_DocumentFrequency ==
    Trained =>
        \A f \in AllFeatures \cup MapKeys(classifier.documentFrequency) :
            /\ MapGetOr0(classifier.documentFrequency, f)
                   = Cardinality({i \in 1..Len(call.trainingData) :
                                     f \in docFeatures(call.trainingData, i)})
            /\ MapGetOr0(classifier.documentFrequency, f) <= classifier.totalDocuments

\* a corpus of two documents, one holding a feature three times and the
\* other once
C9_Witness ==
    /\ Trained
    /\ Len(call.trainingData) = 2
    /\ MapGetOr0(classifier.documentFrequency, <<"p","r">>) = 2
    /\ MapGetOr0(classifier.classWordCounts.spam, <<"p","r">>) = 3

\* the features with document frequency >= minDf
Frequent(c) ==
    {f \in MapKeys(c.documentFrequency) : MapGet(c.documentFrequency, f) >= c.minDf}

\* C10: after train, the keys of the vocabulary are the features whose
\* document frequency is >= minDf, each once.
C10_Vocabulary ==
    Trained =>
        /\ MapKeys(classifier.vocabulary) = Frequent(classifier)
        /\ Len(classifier.vocabulary) = Cardinality(Frequent(classifier))
        /\ MapKeys(classifier.vocabulary) \subseteq MapKeys(classifier.documentFrequency)

\* a fit that leaves some features in the vocabulary and some out of it
C10_Witness ==
    /\ Trained
    /\ classifier.vocabulary # <<>>
    /\ \E f \in MapKeys(classifier.documentFrequency) :
           MapGet(classifier.documentFrequency, f) = classifier.minDf
    /\ \E f \in MapKeys(classifier.documentFrequency) :
           MapGet(classifier.documentFrequency, f) < classifier.minDf

\* the state deserialize is to replace
StateOf(c) == [p \in Properties |-> c[p]]

\* C11: deserialize never raises, whatever snapshot it is given, and every
\* property of the snapshot that is missing or holds a value of the wrong
\* type takes its default; a snapshot with such a property leaves the
\* classifier untrained.
C11_ImportNeverRaises ==
    (call.op = "deserialize" /\ Present(call.data)) =>
        /\ ~result.threw
        /\ \A p \in Properties :
               ~Present(Value(call.data)[p]) =>
                   /\ classifier[p] = New[p]
                   /\ ~classifier.isTrained

\* C12: after deserialize(s) the state of the classifier is the state s
\* gives to a new classifier, whatever it was before: the empty state when
\* s is absent.
C12_ImportReplacesState ==
    call.op = "deserialize" =>
        StateOf(classifier) = StateOf(deserialize(New, call.data))

\* C13: train, predict and getTopFeatures never raise, whatever the items
\* of the corpus and whatever the instance, a missing record included.
C13_CoreNeverRaises ==
    call.op \in {"train", "predict", "getTopFeatures"} => ~result.threw

\* C14: predict and getTopFeatures leave the classifier as it is, and a
\* predict that repeats the call before it returns what that call returned.
C14_ReadOnly ==
    [][call'.op \in {"predict", "getTopFeatures"} =>
          /\ classifier' = classifier
          /\ (call'.op = "predict" /\ repeated') => result' = result]_vars

\* a prediction made twice in succession on a trained classifier
C14_Witness ==
    /\ call.op = "predict"
    /\ repeated
    /\ classifier.isTrained
    /\ Len(classifier.vocabulary) > 0
    /\ ~result.threw

\* C15: every prediction of a trained classifier has scores in [0, 1] that
\* add up to 1, within the one unit the two roundings of fixed point
\* numbers can lose; its label is spam or ham and no class has a larger
\* score than the label; its probability is the score of the label.
C15_Normalized ==
    (call.op = "predict" /\ classifier.isTrained /\ ~result.threw) =>
        LET r == Value(result.value) IN
        /\ r.scores.spam + r.scores.ham \in (Scale - 1)..Scale
        /\ r.scores.spam \in 0..Scale
        /\ r.scores.ham \in 0..Scale
        /\ r.label \in {"spam", "ham"}
        /\ \A l \in {"spam", "ham"} : r.scores[r.label] >= r.scores[l]
        /\ r.probability = r.scores[r.label]

\* a prediction of a trained classifier for spam, with a score for ham
C15_Witness ==
    /\ call.op = "predict"
    /\ classifier.isTrained
    /\ ~result.threw
    /\ Value(result.value).label = "spam"
    /\ Value(result.value).scores.ham > 0

\* the tokens of an optional text
Tokens(text) == tokenize(text)

\* s ends with t
EndsWith(s, t) == Len(t) <= Len(s) /\ SubSeq(s, Len(s) - Len(t) + 1, Len(s)) = t

\* f is the features of the record e, as they are listed: the name tokens
\* with name_, then the two features of the address when hasDomain, then
\* the subject tokens with subj_, the subject tokens, and the body tokens
Listed(f, e, hasDomain) ==
    LET names == Tokens(e.senderName)
        subjects == Tokens(e.subject)
        bodies == Tokens(e.body)
        a == Len(names)
        b == a + (IF hasDomain THEN 2 ELSE 0)
        c == b + Len(subjects)
        d == c + Len(subjects)
    IN
    /\ Len(f) = d + Len(bodies)
    /\ \A i \in 1..Len(names) : f[i] = <<"n","a","m","e","_">> \o names[i]
    /\ hasDomain =>
           LET domain == Value(emailMatch(Value(e.senderEmail)))
               tld == SubSeq(f[a + 2], 5, Len(f[a + 2]))
           IN
           /\ f[a + 1] = <<"d","o","m","a","i","n","_">> \o toLowerCase(domain)
           /\ SubSeq(f[a + 2], 1, 4) = <<"t","l","d","_">>
           /\ "." \notin Range(tld)
           /\ EndsWith(domain, tld)
           /\ tld = domain \/ domain[Len(domain) - Len(tld)] = "."
    /\ \A i \in 1..Len(subjects) :
           /\ f[b + i] = <<"s","u","b","j","_">> \o subjects[i]
           /\ f[c + i] = subjects[i]
    /\ \A i \in 1..Len(bodies) : f[d + i] = bodies[i]

\* C19 as it is stated: the features of a record are the listed ones, the
\* two features of the address being there whenever the record has a
\* sender address that is not empty.
C19_FeaturesOfPresentFields ==
    call.op = "extractFeatures" =>
        Listed(Value(result.value), call.emailData, Truthy(call.emailData.senderEmail))

\* C19, amended: the features of a record are the listed ones, the two
\* features of the address being there when the address has an "@" followed
\* by a character of a domain.
C19_Features ==
    call.op = "extractFeatures" =>
        Listed(Value(result.value), call.emailData,
               /\ Truthy(call.emailData.senderEmail)
               /\ \E i \in 1..(Len(Value(call.emailData.senderEmail)) - 1) :
                      /\ Value(call.emailData.senderEmail)[i] = "@"
                      /\ IsAddrChar(Value(call.emailData.senderEmail)[i + 1]))

\* a record with a name, an address with a domain, a subject and a body
C19_Witness ==
    /\ call.op = "extractFeatures"
    /\ call.emailData = EmailData(Some(TextAl), Some(TextAddress), Some(TextFrPr), Some(TextPrUrl))
    /\ Len(Value(result.value)) = 9

\* C20: getTopFeatures returns at most n pairs (10 when n is not given);
\* every returned feature is in the vocabulary and occurs in the instance,
\* and its score is its TF-IDF weight to four decimals; the pairs are in
\* descending order of weight; no feature of the instance that is in the
\* vocabulary and was left out weighs more than a returned one.
C20_TopFeatures ==
    (call.op = "getTopFeatures" /\ ~result.threw) =>
        LET top == Value(result.value)
            features == Value(featuresOfArg(call.emailData).value)
            weight(w) == MapGetOr0(tfidfFromFeatures(classifier, features), w)
            candidates == {w \in Range(features) : MapHas(classifier.vocabulary, w)}
            returned == {top[i].word : i \in 1..Len(top)}
        IN
        /\ Len(top) <= OrElse(call.n, DefaultN)
        /\ Cardinality(returned) = Len(top)
        /\ returned \subseteq candidates
        /\ \A i \in 1..Len(top) :
               /\ top[i].score * Scale - weight(top[i].word) * 10000 \in -(Scale \div 2)..(Scale \div 2)
               /\ \A j \in (i + 1)..Len(top) : weight(top[i].word) >= weight(top[j].word)
               /\ \A w \in candidates \ returned : weight(w) <= weight(top[i].word)

\* one feature asked for and returned, and a lighter one left out
C20_Witness ==
    /\ call.op = "getTopFeatures"
    /\ call.n = Some(1)
    /\ ~result.threw
    /\ Len(Value(result.value)) = 1
    /\ \E w \in Range(Value(featuresOfArg(call.emailData).value)) :
           /\ MapHas(classifier.vocabulary, w)
           /\ MapGetOr0(tfidfFromFeatures(classifier,
                                          Value(featuresOfArg(call.emailData).value)), w) * 10
                  < Value(result.value)[1].score

\* what the last call of checkAndMoveMessage did
done == Value(result.value)

\* { isSpam: true, method: "header", probability: 1.0, topKeywords: [] }
HeaderVerdict ==
    [isSpam |-> TRUE, method |-> Some("header"), probability |-> Some(Scale),
     topKeywords |-> Some(<<>>)]

RECURSIVE occurrences(_, _, _)
occurrences(D, label, f) ==
    IF D = <<>> THEN 0
    ELSE LET features == OrElse(featuresOfItem(Head(D)), <<>>) IN
         (IF Head(D).label = label
          THEN Cardinality({k \in 1..Len(features) : features[k] = f})
          ELSE 0)
         + occurrences(Tail(D), label, f)

\* the number of features of the items of D labelled label
RECURSIVE words(_, _)
words(D, label) ==
    IF D = <<>> THEN 0
    ELSE (IF Head(D).label = label
          THEN Len(OrElse(featuresOfItem(Head(D)), <<>>))
          ELSE 0)
         + words(Tail(D), label)

\* the classifier c holds all of a training on D and nothing else: every
\* count is the count over the whole of D
WholeFor(c, D) ==
    LET features == UNION {docFeatures(D, i) : i \in 1..Len(D)} IN
    /\ c.alpha = New.alpha
    /\ c.minDf = New.minDf
    /\ c.totalDocuments = Len(D)
    /\ Len(D) > 0 => c.isTrained
    /\ MapKeys(c.documentFrequency) = features
    /\ Len(c.documentFrequency) = Cardinality(features)
    /\ \A f \in features :
          MapGet(c.documentFrequency, f)
              = Cardinality({i \in 1..Len(D) : f \in docFeatures(D, i)})
    /\ MapKeys(c.vocabulary) = Frequent(c)
    /\ Len(c.vocabulary) = Cardinality(Frequent(c))
    /\ \A label \in {"spam", "ham"} :
          /\ c.classDocCount[label]
                 = Cardinality({i \in 1..Len(D) : D[i].label = label})
          /\ c.classTotalWords[label] = words(D, label)
          /\ MapKeys(c.classWordCounts[label])
                 = {f \in features : occurrences(D, label, f) > 0}
          /\ \A f \in MapKeys(c.classWordCounts[label]) :
                 MapGet(c.classWordCounts[label], f) = occurrences(D, label, f)

\* the classifier c is as the constructor left it, or as the last train
\* left it on return
Whole(c, last) ==
    IF Present(last) THEN WholeFor(c, Value(last)) ELSE c = New

\* the step is the one in which the handler h calls classifier.serialize()
Serializing(h) ==
    /\ handlers[h].at # "saveClassifierModel"
    /\ handlers'[h].at = "saveClassifierModel"

\* the step is the one in which a check calls classifier.predict
Predicting ==
    /\ handlers["newMail"].at = "getMessageBodyText"
    /\ handlers'["newMail"].at = "idle"

\* C16: in every interleaving of the handlers of the background script,
\* each from one await to the next, the model a predict call reads and the
\* model a serialize call writes out is whole: it is the model of the
\* constructor or the model the last train left on return, with every
\* count taken over all of that train's trainingData, and never a model
\* between a train's reset and the end of its rebuild.
C16_Atomic ==
    [][/\ Predicting =>
              /\ Whole(classifier, trainedOn)
              /\ result' = predict(classifier, ObjectArg(emailDataOf(NewMail, TRUE)))
       /\ \A h \in Handlers :
              Serializing(h) =>
                  /\ Whole(classifier', trainedOn')
                  /\ handlers'[h].snapshot = Some(serialize(classifier'))]_vars

\* a check that tested classifier.isTrained, was suspended for the body of
\* the message while another handler trained the classifier, and went on
\* to predict with the model of that training, which is stored since
C16_Witness ==
    /\ call.op = "predict"
    /\ call.since # trainedOn
    /\ Present(trainedOn)
    /\ Len(Value(trainedOn)) = 2
    /\ storage = Some(serialize(classifier))
    /\ Value(result.value).label = "spam"

\* C21: after train on the spam mail 'Win a free prize now' / 'prize prize
\* click' and the ham mail 'Meeting notes' / 'meeting notes attached', in
\* this order, with minDf = 1, predict of subject 'free prize' and body
\* 'prize' returns the label spam, and scores.spam > scores.ham.
C21_ScenarioA ==
    (/\ call.op = "predict"
     /\ call.emailData = FreePrize
     /\ classifier.minDf = 1
     /\ classifier.isTrained
     /\ classifier.classDocCount = [spam |-> 1, ham |-> 1]
     /\ Len(classifier.vocabulary) = 14
     /\ classifier.vocabulary[1][1] = <<"s","u","b","j","_","w","i","n">>) =>
        /\ ~result.threw
        /\ Value(result.value).label = "spam"
        /\ Value(result.value).scores.spam > Value(result.value).scores.ham

\* that prediction, made, with every word of the instance in the vocabulary
\* of 14 features
C21_Witness ==
    /\ call.op = "predict"
    /\ call.emailData = FreePrize
    /\ classifier.minDf = 1
    /\ classifier.classDocCount = [spam |-> 1, ham |-> 1]
    /\ Len(classifier.vocabulary) = 14
    /\ classifier.vocabulary[1][1] = <<"s","u","b","j","_","w","i","n">>
    /\ MapHas(classifier.vocabulary, TextPrize)
    /\ MapHas(classifier.vocabulary, <<"f","r","e","e">>)
    /\ Value(result.value).label = "spam"
    /\ Value(result.value).scores.spam > 700

\* C22: every token tokenize returns has at least two characters, each of
\* them a lower-case letter, a digit, "_", an ideograph, "@", "." or "-",
\* so none is an upper-case letter or white space; and tokenize returns the
\* empty sequence for a missing and for an empty text.
C22_Tokens ==
    call.op = "tokenize" =>
        LET tokens == Value(result.value) IN
        /\ ~result.threw
        /\ \A i \in 1..Len(tokens) :
               /\ Len(tokens[i]) >= 2
               /\ Range(tokens[i]) \subseteq KeptChars
               /\ Range(tokens[i]) \cap (Range(UpperLetters) \cup WhiteSpace) = {}
        /\ ~Truthy(call.text) => tokens = <<>>

\* a text of an upper-case letter, an ideograph and a digit, returned as
\* one token in lower case
C22_Witness ==
    /\ call.op = "tokenize"
    /\ call.text = Some(<<"A", "U+4E2D", "7">>)
    /\ Value(result.value) = << <<"a", "U+4E2D", "7">> >>

\* the number of samples of D with the label
Labelled(D, label) == Cardinality({i \in 1..Len(D) : D[i] = label})

\* C23: the corpus trainFromMailboxFolders assembles holds as many ham
\* samples as spam samples, whatever the folders hold.
C23_Balanced ==
    call.op = "trainFromMailboxFolders" =>
        LET corpus == Value(result.value) IN
        Labelled(corpus.trainingData, "spam") = Labelled(corpus.trainingData, "ham")

\* C24: for every trained model, with alpha > 0, and every instance that
\* predict scores, every denominator predict divides by is > 0: the
\* document length of termFrequency, the denominator of the prior, the
\* smoothing denominator of either class, and the sum of the two
\* exponentials.
C24_Denominators ==
    (call.op = "predict" /\ classifier.isTrained /\ ~result.threw) =>
        LET features == Value(featuresOfArg(call.emailData).value) IN
        /\ docLength(features) > 0
        /\ priorDenominator(classifier) > 0
        /\ \A label \in {"spam", "ham"} : smoothingDenominator(classifier, label) > 0
        /\ sumExp(logProbs(classifier, features)) > 0

\* a prediction for an instance of no feature by a trained model of an
\* empty vocabulary and no word in either class
C24_Witness ==
    /\ call.op = "predict"
    /\ classifier.isTrained
    /\ ~result.threw
    /\ Value(featuresOfArg(call.emailData).value) = <<>>
    /\ classifier.vocabulary = <<>>
    /\ classifier.classTotalWords = ZeroCounts
    /\ Value(result.value).label = "ham"

\* the corpora that hold the items of D in another order, and D itself
Reorderings(D) ==
    {[i \in 1..Len(D) |-> D[f[i]]] :
        f \in {g \in [1..Len(D) -> 1..Len(D)] : \A i, j \in 1..Len(D) : g[i] = g[j] => i = j}}

\* C26: for every corpus D and every permutation P of D, the model trained
\* on P has the document frequencies, the per-class document counts, word
\* counts and totals and the vocabulary keys of the model trained on D, and
\* predict returns the same result on both for every instance; the order
\* of the map entries and the vocabulary indices are left free.
C26_OrderFree ==
    call.op = "train" =>
        \A P \in Reorderings(call.trainingData) :
            LET other == train(classifier, P) IN
            /\ Range(other.documentFrequency) = Range(classifier.documentFrequency)
            /\ Len(other.documentFrequency) = Len(classifier.documentFrequency)
            /\ other.totalDocuments = classifier.totalDocuments
            /\ other.classDocCount = classifier.classDocCount
            /\ other.classTotalWords = classifier.classTotalWords
            /\ \A label \in {"spam", "ham"} :
                   /\ Range(other.classWordCounts[label])
                          = Range(classifier.classWordCounts[label])
                   /\ Len(other.classWordCounts[label])
                          = Len(classifier.classWordCounts[label])
            /\ MapKeys(other.vocabulary) = MapKeys(classifier.vocabulary)
            /\ other.isTrained = classifier.isTrained
            /\ \A x \in Args : predict(other, x) = predict(classifier, x)

\* a corpus of two different items that share a word, whose other order
\* gives the maps and the vocabulary another order
C26_Witness ==
    /\ call.op = "train"
    /\ call.trainingData = <<SpamMail, HamText>>
    /\ classifier.minDf = 1
    /\ MapGet(classifier.documentFrequency, TextPr) = 2
    /\ train(classifier, <<HamText, SpamMail>>).documentFrequency
           # classifier.documentFrequency
    /\ train(classifier, <<HamText, SpamMail>>).vocabulary # classifier.vocabulary

\* C27: no train, predict or deserialize changes what a snapshot that
\* serialize returned holds, whichever classifier it is called on; and a
\* call on one classifier changes nothing of the other, also when both
\* imported the same snapshot.
C27_Isolation ==
    [][/\ \A i \in 1..Len(held) :
              derefSnapshot(heap', held'[i]) = derefSnapshot(heap, held[i])
       /\ \A m \in Names :
              call'.on # m => deref(heap', instances'[m]) = deref(heap, instances[m])]_vars

\* a classifier trained again after it returned a snapshot that the other
\* classifier imported: the snapshot and the other classifier share their
\* counts objects and hold the counts of the first training
C27_Witness ==
    /\ call.op = "train"
    /\ call.on = "a"
    /\ Len(held) >= 1
    /\ instances["b"].classDocCount = Value(held[1].classDocCount)
    /\ instances["a"].classDocCount # instances["b"].classDocCount
    /\ heap[instances["b"].classDocCount] = [spam |-> 1, ham |-> 0]
    /\ heap[instances["a"].classDocCount] = [spam |-> 1, ham |-> 1]
    /\ instances["b"].isTrained

\* a message arrives in this step
Arrives == arrived' = arrived + 1

\* C25: a message that arrives is moved to the spam folder only if
\* settings.enabled and settings.autoScan are both on when it is checked;
\* and once initialize has run, a message that arrives while both are on,
\* whenever saveSettings turned autoScan on, is scanned.
C25_MovedOnlyIfOn ==
    [][Arrives /\ folderOf' # folderOf => settings.enabled /\ settings.autoScan]_vars
C25_ScannedOnceOn ==
    [][Arrives /\ initialized /\ settings.enabled /\ settings.autoScan
          => stats'.scannedCount = stats.scannedCount + 1]_vars
C25_Switches == C25_MovedOnlyIfOn /\ C25_ScannedOnceOn

\* case "addTrainingData" returns { success: true } in this step
ReturnsSuccess ==
    /\ handlers["addTrainingData"].at = "saveClassifierModel"
    /\ handlers'["addTrainingData"] = Idle

\* C28: when addTrainingData returns success, a train that ran since the
\* handler added its sample had the sample in its corpus, whatever other
\* handlers ran between its awaits.
C28_FeedbackLearned == [][ReturnsSuccess => feedback.learned]_vars

\* a run of scanAllAccountsWithML is between its start and its end
InProgress == \E r \in 1..MaxRuns : runs[r] \in Awaits

\* C29: scanProgress.isScanning is true while a run of
\* scanAllAccountsWithML is in progress and false when none is, so that
\* getProgress never answers otherwise.
C29_FlagTracksScan == scanProgress.isScanning <=> InProgress

\* C30: an item of the results page has the status moved only if the
\* background script answered a moveMessage for it with success: true,
\* that is, only if its message was moved.
C30_StatusIsOutcome ==
    \A i \in 1..MaxResults :
        filteredResults[i].status = Some("moved") => filteredResults[i].moved

====
